---- MODULE Spec2Model ----
(***************************************************************************)
(* Model of the submittal-vs-specification analysis engine (AnalysisEngine *)
(* in src/unnamed/part_010) and of the output schema validation and        *)
(* sanitization stage (SchemaValidator in src/src/lib/ai/schemas.ts).      *)
(*                                                                         *)
(* A JavaScript string is a sequence of one-character strings, so that the *)
(* regular expressions, toLowerCase, includes, split and replace of the    *)
(* source are computed on characters.  A JavaScript number is an exact     *)
(* rational [n, d] where the source divides, and an integer elsewhere.     *)
(***************************************************************************)
EXTENDS Integers, Sequences, FiniteSets, TLC

\* ------------------------------------------------------------------------
\* Bounds of the model
\* ------------------------------------------------------------------------
MaxSpecLines == 3
MaxSubLines == 2
MaxDays == 1

\* ------------------------------------------------------------------------
\* Characters and strings
\* ------------------------------------------------------------------------
UpperLetters == <<"A","B","C","D","E","F","G","H","I","J","K","L","M",
                  "N","O","P","Q","R","S","T","U","V","W","X","Y","Z">>
LowerLetters == <<"a","b","c","d","e","f","g","h","i","j","k","l","m",
                  "n","o","p","q","r","s","t","u","v","w","x","y","z">>
DigitChars == {"0","1","2","3","4","5","6","7","8","9"}
SpaceChars == {" ", "\t", "\n"}

IsUpper(c) == \E i \in 1..26 : UpperLetters[i] = c
IsLower(c) == \E i \in 1..26 : LowerLetters[i] = c
IsDigit(c) == c \in DigitChars
IsSpace(c) == c \in SpaceChars

\* String.prototype.toLowerCase, one character
LowerChar(c) ==
  IF IsUpper(c) THEN LowerLetters[CHOOSE i \in 1..26 : UpperLetters[i] = c] ELSE c

\* String.prototype.toLowerCase
toLowerCase(s) == [i \in 1..Len(s) |-> LowerChar(s[i])]

\* String.prototype.includes
includes(s, t) ==
  \E i \in 0..(Len(s) - Len(t)) : \A j \in 1..Len(t) : s[i + j] = t[j]

\* String.prototype.trim
trim(s) ==
  IF \A i \in 1..Len(s) : IsSpace(s[i]) THEN <<>>
  ELSE LET a == CHOOSE i \in 1..Len(s) :
                  ~IsSpace(s[i]) /\ \A j \in 1..(i - 1) : IsSpace(s[j])
           b == CHOOSE i \in 1..Len(s) :
                  ~IsSpace(s[i]) /\ \A j \in (i + 1)..Len(s) : IsSpace(s[j])
       IN  SubSeq(s, a, b)

\* String.prototype.split(/\s+/): the pieces between maximal runs of
\* whitespace; the empty string gives one empty piece.
RECURSIVE SplitFrom(_, _, _)
SplitFrom(s, i, cur) ==
  IF i > Len(s) THEN <<cur>>
  ELSE IF IsSpace(s[i])
       THEN IF i > 1 /\ IsSpace(s[i - 1])
            THEN SplitFrom(s, i + 1, cur)
            ELSE <<cur>> \o SplitFrom(s, i + 1, <<>>)
       ELSE SplitFrom(s, i + 1, Append(cur, s[i]))

splitWhitespace(s) == SplitFrom(s, 1, <<>>)

Range(f) == {f[i] : i \in DOMAIN f}

\* ------------------------------------------------------------------------
\* Exact rationals for the quotients the source computes
\* ------------------------------------------------------------------------
RECURSIVE GCD(_, _)
GCD(a, b) == IF b = 0 THEN a ELSE GCD(b, a % b)

Abs(x) == IF x < 0 THEN -x ELSE x

Rat(n, d) ==
  LET g == GCD(Abs(n), d) IN [n |-> n \div g, d |-> d \div g]

RatOfInt(k) == [n |-> k, d |-> 1]
RatAdd(x, y) == Rat(x.n * y.d + y.n * x.d, x.d * y.d)
RatSub(x, y) == Rat(x.n * y.d - y.n * x.d, x.d * y.d)
RatMul(x, y) == Rat(x.n * y.n, x.d * y.d)
RatDivInt(x, k) == Rat(x.n, x.d * k)
RatLeq(x, y) == x.n * y.d <= y.n * x.d
RatLt(x, y) == x.n * y.d < y.n * x.d
RatMin(x, y) == IF RatLeq(x, y) THEN x ELSE y
RatMax(x, y) == IF RatLeq(x, y) THEN y ELSE x

\* Math.round of a rational: the nearest integer, halves towards +infinity
RoundRat(x) == (2 * x.n + x.d) \div (2 * x.d)

\* ------------------------------------------------------------------------
\* The lines the documents of the model are written with
\* ------------------------------------------------------------------------
LineFireRating == <<"1", ".", " ", "F", "I", "R", "E", " ", "R", "A", "T", "I", "N", "G">>
LineMaterials == <<"2", ".", " ", "M", "A", "T", "E", "R", "I", "A", "L", "S">>
LineShall == <<"D", "o", "o", "r", " ", "s", "h", "a", "l", "l", " ", "h", "a", "v", "e", " ", "9", "0", " ", "m", "i", "n", "u", "t", "e", " ", "f", "i", "r", "e", " ", "r", "a", "t", "i", "n", "g", ".">>
LineHas == <<"D", "o", "o", "r", " ", "h", "a", "s", " ", "9", "0", " ", "m", "i", "n", "u", "t", "e", " ", "f", "i", "r", "e", " ", "r", "a", "t", "i", "n", "g", ".", " ", "U", "L", " ", "L", "i", "s", "t", "e", "d", ".">>
LinePlain == <<"s", "t", "e", "e", "l", " ", "d", "o", "o", "r">>
LineTesting == <<"3", ".", " ", "T", "E", "S", "T", "I", "N", "G">>
LineSafety == <<"4", ".", " ", "S", "A", "F", "E", "T", "Y">>
LineCodes == <<"5", ".", " ", "C", "O", "D", "E", "S">>
LineEmpty == <<>>

SpecLines == {LineFireRating, LineMaterials, LineShall}
SubLines == {LineFireRating, LineShall, LineHas}

\* text.split('\n') of every text of at most max lines over a set of lines;
\* the empty text splits into one empty line.
RECURSIVE TextsOfLen(_, _)
TextsOfLen(lines, k) ==
  IF k = 0 THEN {<<>>}
  ELSE {Append(t, l) : t \in TextsOfLen(lines, k - 1), l \in lines}

Texts(lines, max) ==
  {<<LineEmpty>>} \cup UNION {TextsOfLen(lines, k) : k \in 1..max}

\* ------------------------------------------------------------------------
\* Section extraction
\* ------------------------------------------------------------------------
KwSECTION == <<"S", "E", "C", "T", "I", "O", "N">>
KwPART == <<"P", "A", "R", "T">>
KwSPECIFICATION == <<"S", "P", "E", "C", "I", "F", "I", "C", "A", "T", "I", "O", "N">>

\* /^[A-Z][A-Z\s\d\.]+:?$/
HeaderClass(c) == IsUpper(c) \/ IsSpace(c) \/ IsDigit(c) \/ c = "."
MatchesCapsLine(line) ==
  /\ Len(line) >= 2
  /\ IsUpper(line[1])
  /\ \/ \A i \in 2..Len(line) : HeaderClass(line[i])
     \/ /\ Len(line) >= 3
        /\ line[Len(line)] = ":"
        /\ \A i \in 2..(Len(line) - 1) : HeaderClass(line[i])

\* /^\d+\.\s+[A-Z]/
MatchesNumbered(line) ==
  \E a \in 1..Len(line) : \E b \in (a + 2)..Len(line) :
    /\ \A i \in 1..a : IsDigit(line[i])
    /\ line[a + 1] = "."
    /\ \A i \in (a + 2)..(b - 1) : IsSpace(line[i])
    /\ b > a + 2
    /\ IsUpper(line[b])

\* /^[A-Z]{2,}/
MatchesTwoCaps(line) == Len(line) >= 2 /\ IsUpper(line[1]) /\ IsUpper(line[2])

isSectionHeader(line) ==
  \/ MatchesCapsLine(line)
  \/ MatchesNumbered(line)
  \/ MatchesTwoCaps(line)
  \/ includes(line, KwSECTION)
  \/ includes(line, KwPART)
  \/ includes(line, KwSPECIFICATION)

\* title.toLowerCase().replace(/[^a-z0-9\s]/g, '').replace(/\s+/g, '-')
\*      .substring(0, 50)
KeepIdChars(s) == SelectSeq(s, LAMBDA c : IsLower(c) \/ IsDigit(c) \/ IsSpace(c))

RECURSIVE DashRuns(_, _)
DashRuns(s, i) ==
  IF i > Len(s) THEN <<>>
  ELSE IF IsSpace(s[i])
       THEN IF i > 1 /\ IsSpace(s[i - 1])
            THEN DashRuns(s, i + 1)
            ELSE <<"-">> \o DashRuns(s, i + 1)
       ELSE <<s[i]>> \o DashRuns(s, i + 1)

IdMaxLen == 50

generateSectionId(title) ==
  LET d == DashRuns(KeepIdChars(toLowerCase(title)), 1)
  IN  SubSeq(d, 1, IF Len(d) < IdMaxLen THEN Len(d) ELSE IdMaxLen)

\* /^\d+\.\d+\.\d+/, /^\d+\.\d+/, /^\d+\./ on the title
RECURSIVE DigitRun(_, _)
DigitRun(s, i) ==
  IF i <= Len(s) /\ IsDigit(s[i]) THEN 1 + DigitRun(s, i + 1) ELSE 0

NumberDepth(title) ==
  LET a == DigitRun(title, 1)
      dot1 == a > 0 /\ a + 1 <= Len(title) /\ title[a + 1] = "."
      b == IF dot1 THEN DigitRun(title, a + 2) ELSE 0
      dot2 == b > 0 /\ a + b + 2 <= Len(title) /\ title[a + b + 2] = "."
      c == IF dot2 THEN DigitRun(title, a + b + 3) ELSE 0
  IN  IF c > 0 THEN 3 ELSE IF b > 0 THEN 2 ELSE IF dot1 THEN 1 ELSE 0

getSectionLevel(title) ==
  IF NumberDepth(title) = 3 THEN 3 ELSE IF NumberDepth(title) = 2 THEN 2 ELSE 1

Kw_material == <<"m", "a", "t", "e", "r", "i", "a", "l">>
Kw_product == <<"p", "r", "o", "d", "u", "c", "t">>
Kw_dimension == <<"d", "i", "m", "e", "n", "s", "i", "o", "n">>
Kw_size == <<"s", "i", "z", "e">>
Kw_performance == <<"p", "e", "r", "f", "o", "r", "m", "a", "n", "c", "e">>
Kw_standard == <<"s", "t", "a", "n", "d", "a", "r", "d">>
Kw_test == <<"t", "e", "s", "t">>
Kw_verification == <<"v", "e", "r", "i", "f", "i", "c", "a", "t", "i", "o", "n">>
Kw_install == <<"i", "n", "s", "t", "a", "l", "l">>
Kw_application == <<"a", "p", "p", "l", "i", "c", "a", "t", "i", "o", "n">>
Kw_quality == <<"q", "u", "a", "l", "i", "t", "y">>
Kw_control == <<"c", "o", "n", "t", "r", "o", "l">>
Kw_safety == <<"s", "a", "f", "e", "t", "y">>
Kw_hazard == <<"h", "a", "z", "a", "r", "d">>
Kw_code == <<"c", "o", "d", "e">>
Kw_regulation == <<"r", "e", "g", "u", "l", "a", "t", "i", "o", "n">>
Kw_environment == <<"e", "n", "v", "i", "r", "o", "n", "m", "e", "n", "t">>
Kw_green == <<"g", "r", "e", "e", "n">>
Kw_structural == <<"s", "t", "r", "u", "c", "t", "u", "r", "a", "l">>
Kw_fire == <<"f", "i", "r", "e">>
Kw_required == <<"r", "e", "q", "u", "i", "r", "e", "d">>
Kw_shall == <<"s", "h", "a", "l", "l">>

categorizeSection(title) ==
  LET t == toLowerCase(title) IN
  IF includes(t, Kw_material) \/ includes(t, Kw_product)
    THEN "material-specifications"
  ELSE IF includes(t, Kw_dimension) \/ includes(t, Kw_size)
    THEN "dimensional-requirements"
  ELSE IF includes(t, Kw_performance) \/ includes(t, Kw_standard)
    THEN "performance-standards"
  ELSE IF includes(t, Kw_test) \/ includes(t, Kw_verification)
    THEN "testing-requirements"
  ELSE IF includes(t, Kw_install) \/ includes(t, Kw_application)
    THEN "installation-procedures"
  ELSE IF includes(t, Kw_quality) \/ includes(t, Kw_control)
    THEN "quality-control"
  ELSE IF includes(t, Kw_safety) \/ includes(t, Kw_hazard)
    THEN "safety-requirements"
  ELSE IF includes(t, Kw_code) \/ includes(t, Kw_regulation)
    THEN "regulatory-compliance"
  ELSE IF includes(t, Kw_environment) \/ includes(t, Kw_green)
    THEN "environmental-considerations"
  ELSE "documentation"

\* The loop of extractSections over lines[i..]: sections closed so far, the
\* section being filled (cur, <<>> when there is none yet)
RECURSIVE ExtractFrom(_, _, _, _)
ExtractFrom(lines, i, sections, cur) ==
  IF i > Len(lines)
  THEN IF cur = <<>> THEN sections ELSE Append(sections, cur[1])
  ELSE LET trimmedLine == trim(lines[i]) IN
       IF isSectionHeader(trimmedLine)
       THEN ExtractFrom(lines, i + 1,
              IF cur = <<>> THEN sections ELSE Append(sections, cur[1]),
              << [id |-> generateSectionId(trimmedLine),
                  title |-> trimmedLine,
                  content |-> <<>>,
                  startLine |-> i,
                  endLine |-> i,
                  level |-> getSectionLevel(trimmedLine),
                  category |-> categorizeSection(trimmedLine)] >>)
       ELSE IF cur # <<>> /\ Len(trimmedLine) > 0
       THEN ExtractFrom(lines, i + 1, sections,
              << [cur[1] EXCEPT
                   !.content = (IF cur[1].content # <<>>
                                THEN cur[1].content \o <<"\n">>
                                ELSE <<>>) \o trimmedLine,
                   !.endLine = i] >>)
       ELSE ExtractFrom(lines, i + 1, sections, cur)

extractSections(text) == ExtractFrom(text, 1, <<>>, <<>>)

\* ------------------------------------------------------------------------
\* Section matching and comparison
\* ------------------------------------------------------------------------
\* Jaccard overlap of the lowercase whitespace-separated word sets
calculateSectionMatchScore(specSection, submittalSection) ==
  LET specWords == Range(splitWhitespace(toLowerCase(specSection.content)))
      submittalWords == Range(splitWhitespace(toLowerCase(submittalSection.content)))
  IN  Rat(Cardinality(specWords \cap submittalWords),
          Cardinality(specWords \cup submittalWords))

AcceptThreshold == Rat(3, 10)
ExactThreshold == Rat(8, 10)
PartialThreshold == Rat(6, 10)
PassedThreshold == Rat(7, 10)

matchTypeOf(matchScore) ==
  IF RatLt(ExactThreshold, matchScore) THEN "exact"
  ELSE IF RatLt(PartialThreshold, matchScore) THEN "partial"
  ELSE "semantic"

\* Array.prototype.sort((a, b) => b.matchScore - a.matchScore): stable,
\* descending by score
RECURSIVE InsertByScore(_, _)
InsertByScore(sorted, m) ==
  IF sorted = <<>> THEN <<m>>
  ELSE IF RatLt(Head(sorted).matchScore, m.matchScore)
       THEN <<m>> \o sorted
       ELSE <<Head(sorted)>> \o InsertByScore(Tail(sorted), m)

RECURSIVE SortByScore(_)
SortByScore(ms) ==
  IF ms = <<>> THEN <<>>
  ELSE InsertByScore(SortByScore(SubSeq(ms, 1, Len(ms) - 1)), ms[Len(ms)])

RECURSIVE MatchesFrom(_, _, _)
MatchesFrom(specSection, submittalSections, i) ==
  IF i > Len(submittalSections) THEN <<>>
  ELSE LET matchScore ==
             calculateSectionMatchScore(specSection, submittalSections[i])
       IN  (IF RatLt(AcceptThreshold, matchScore)
            THEN << [submittalSection |-> submittalSections[i].id,
                     specificationSection |-> specSection.id,
                     matchScore |-> matchScore,
                     matchType |-> matchTypeOf(matchScore),
                     confidence |-> matchScore] >>
            ELSE <<>>)
           \o MatchesFrom(specSection, submittalSections, i + 1)

\* findMatchingSections with the comparator's operands exchanged: the
\* matches come out in ascending order of score
RECURSIVE ReverseSeq(_)
ReverseSeq(q) == IF q = <<>> THEN <<>> ELSE Append(ReverseSeq(Tail(q)), Head(q))

findMatchingSectionsAscending(specSection, submittalSections) ==
  ReverseSeq(SortByScore(MatchesFrom(specSection, submittalSections, 1)))

findMatchingSections(specSection, submittalSections) ==
  SortByScore(MatchesFrom(specSection, submittalSections, 1))

CriticalKeywords ==
  <<Kw_safety, Kw_structural, Kw_fire, Kw_code, Kw_required, Kw_shall>>

\* determineCriticality reading the section's title where the source reads
\* its content
determineCriticalityOfTitle(section) ==
  LET content == toLowerCase(section.title) IN
  IF \E k \in 1..Len(CriticalKeywords) : includes(content, CriticalKeywords[k])
  THEN "critical" ELSE "major"

\* determineCriticality with a keyword list that lacks 'shall'
determineCriticalityWithoutShall(section) ==
  LET content == toLowerCase(section.content) IN
  IF \E k \in 1..(Len(CriticalKeywords) - 1) : includes(content, CriticalKeywords[k])
  THEN "critical" ELSE "major"

determineCriticality(section) ==
  LET content == toLowerCase(section.content) IN
  IF \E k \in 1..Len(CriticalKeywords) : includes(content, CriticalKeywords[k])
  THEN "critical" ELSE "major"

\* analyzeSectionDifferences grading the difference by the criticality of
\* the specification section
analyzeSectionDifferencesGraded(specSection, submittalSection) ==
  << [id |-> <<"diff-", specSection.id, "-", submittalSection.id>>,
      submittalContent |-> submittalSection.content,
      specificationRequirement |-> specSection.content,
      severity |-> IF \E k \in 1..Len(CriticalKeywords) :
                        includes(toLowerCase(specSection.content), CriticalKeywords[k])
                   THEN "critical" ELSE "major",
      category |-> specSection.category,
      impact |-> "Minor compliance deviation",
      correctionRequired |-> FALSE] >>

analyzeSectionDifferences(specSection, submittalSection) ==
  << [id |-> <<"diff-", specSection.id, "-", submittalSection.id>>,
      submittalContent |-> submittalSection.content,
      specificationRequirement |-> specSection.content,
      severity |-> "minor",
      category |-> specSection.category,
      impact |-> "Minor compliance deviation",
      correctionRequired |-> FALSE] >>

assessRelevance(section) == "relevant"

\* similarities.reduce(sum of matchScore)
RECURSIVE SumScores(_)
SumScores(ms) ==
  IF ms = <<>> THEN RatOfInt(0)
  ELSE RatAdd(Head(ms).matchScore, SumScores(Tail(ms)))

\* calculateComparisonConfidence adding the penalty where the source
\* subtracts it
calculateComparisonConfidenceAddsPenalty(similarities, differences) ==
  IF Len(similarities) = 0 THEN Rat(1, 10)
  ELSE LET avgMatchScore == RatDivInt(SumScores(similarities), Len(similarities))
           penaltyFactor == RatMin(Rat(5, 10), Rat(Len(differences), 10))
       IN  RatMax(Rat(1, 10), RatAdd(avgMatchScore, penaltyFactor))

calculateComparisonConfidence(similarities, differences) ==
  IF Len(similarities) = 0 THEN Rat(1, 10)
  ELSE LET avgMatchScore == RatDivInt(SumScores(similarities), Len(similarities))
           penaltyFactor == RatMin(Rat(5, 10), Rat(Len(differences), 10))
       IN  RatMax(Rat(1, 10), RatSub(avgMatchScore, penaltyFactor))

\* submittalSections.find(s => s.id === id): the first section with that id
FindSectionById(sections, id) ==
  sections[CHOOSE i \in 1..Len(sections) :
             sections[i].id = id /\ \A j \in 1..(i - 1) : sections[j].id # id]

RECURSIVE DifferencesOf(_, _, _)
DifferencesOf(specSection, submittalSections, matches) ==
  IF matches = <<>> THEN <<>>
  ELSE analyzeSectionDifferences(
         specSection,
         FindSectionById(submittalSections, Head(matches).submittalSection))
       \o DifferencesOf(specSection, submittalSections, Tail(matches))

\* The first loop of performComparison, over specificationSections[i..]
RECURSIVE CompareFrom(_, _, _, _)
CompareFrom(submittalSections, specificationSections, i, acc) ==
  IF i > Len(specificationSections) THEN acc
  ELSE LET specSection == specificationSections[i]
           matches == findMatchingSections(specSection, submittalSections)
       IN  IF Len(matches) = 0
           THEN CompareFrom(submittalSections, specificationSections, i + 1,
                  [acc EXCEPT !.missingElements = Append(@,
                     [id |-> <<"missing-", specSection.id>>,
                      specificationRequirement |-> specSection.title,
                      category |-> specSection.category,
                      criticality |-> determineCriticality(specSection),
                      suggestedAction |->
                        <<"Provide information for: ", specSection.title>>])])
           ELSE CompareFrom(submittalSections, specificationSections, i + 1,
                  [acc EXCEPT
                     !.similarities = @ \o matches,
                     !.differences = @ \o
                        DifferencesOf(specSection, submittalSections, matches)])

\* The second loop of performComparison: submittal sections no match names
RECURSIVE ExcessFrom(_, _, _)
ExcessFrom(submittalSections, similarities, i) ==
  IF i > Len(submittalSections) THEN <<>>
  ELSE LET submittalSection == submittalSections[i]
           hasMatch == \E k \in 1..Len(similarities) :
                         similarities[k].submittalSection = submittalSection.id
       IN  (IF ~hasMatch
            THEN << [id |-> <<"excess-", submittalSection.id>>,
                     submittalContent |-> submittalSection.title,
                     category |-> submittalSection.category,
                     relevance |-> assessRelevance(submittalSection),
                     action |-> "clarify"] >>
            ELSE <<>>)
           \o ExcessFrom(submittalSections, similarities, i + 1)

performComparison(submittalSections, specificationSections) ==
  LET acc == CompareFrom(submittalSections, specificationSections, 1,
               [similarities |-> <<>>, differences |-> <<>>,
                missingElements |-> <<>>])
  IN  [similarities |-> acc.similarities,
       differences |-> acc.differences,
       missingElements |-> acc.missingElements,
       excessElements |-> ExcessFrom(submittalSections, acc.similarities, 1),
       confidenceScore |->
         calculateComparisonConfidence(acc.similarities, acc.differences)]

\* ------------------------------------------------------------------------
\* Compliance matrix
\* ------------------------------------------------------------------------
allCategories ==
  <<"material-specifications", "dimensional-requirements",
    "performance-standards", "testing-requirements",
    "installation-procedures", "quality-control", "documentation",
    "regulatory-compliance", "safety-requirements",
    "environmental-considerations">>

FindingCategory == Range(allCategories)

CategoryChars(c) ==
  IF c = "material-specifications" THEN
    <<"m", "a", "t", "e", "r", "i", "a", "l", "-", "s", "p", "e", "c", "i", "f", "i", "c", "a", "t", "i", "o", "n", "s">>
  ELSE IF c = "dimensional-requirements" THEN
    <<"d", "i", "m", "e", "n", "s", "i", "o", "n", "a", "l", "-", "r", "e", "q", "u", "i", "r", "e", "m", "e", "n", "t", "s">>
  ELSE IF c = "performance-standards" THEN
    <<"p", "e", "r", "f", "o", "r", "m", "a", "n", "c", "e", "-", "s", "t", "a", "n", "d", "a", "r", "d", "s">>
  ELSE IF c = "testing-requirements" THEN
    <<"t", "e", "s", "t", "i", "n", "g", "-", "r", "e", "q", "u", "i", "r", "e", "m", "e", "n", "t", "s">>
  ELSE IF c = "installation-procedures" THEN
    <<"i", "n", "s", "t", "a", "l", "l", "a", "t", "i", "o", "n", "-", "p", "r", "o", "c", "e", "d", "u", "r", "e", "s">>
  ELSE IF c = "quality-control" THEN
    <<"q", "u", "a", "l", "i", "t", "y", "-", "c", "o", "n", "t", "r", "o", "l">>
  ELSE IF c = "documentation" THEN
    <<"d", "o", "c", "u", "m", "e", "n", "t", "a", "t", "i", "o", "n">>
  ELSE IF c = "regulatory-compliance" THEN
    <<"r", "e", "g", "u", "l", "a", "t", "o", "r", "y", "-", "c", "o", "m", "p", "l", "i", "a", "n", "c", "e">>
  ELSE IF c = "safety-requirements" THEN
    <<"s", "a", "f", "e", "t", "y", "-", "r", "e", "q", "u", "i", "r", "e", "m", "e", "n", "t", "s">>
  ELSE IF c = "environmental-considerations" THEN
    <<"e", "n", "v", "i", "r", "o", "n", "m", "e", "n", "t", "a", "l", "-", "c", "o", "n", "s", "i", "d", "e", "r", "a", "t", "i", "o", "n", "s">>
  ELSE <<>>

\* String.prototype.replace(from, to) with a string pattern: the first
\* occurrence only
replaceFirst(s, from, to) ==
  IF \E i \in 1..Len(s) : s[i] = from
  THEN LET k == CHOOSE i \in 1..Len(s) :
                  s[i] = from /\ \A j \in 1..(i - 1) : s[j] # from
       IN  [s EXCEPT ![k] = to]
  ELSE s

UpperChar(c) ==
  IF IsLower(c) THEN UpperLetters[CHOOSE i \in 1..26 : LowerLetters[i] = c] ELSE c

IsWordChar(c) == IsUpper(c) \/ IsLower(c) \/ IsDigit(c) \/ c = "_"

\* replace(/\b\w/g, l => l.toUpperCase())
capitalizeWords(s) ==
  [i \in 1..Len(s) |->
     IF IsWordChar(s[i]) /\ (i = 1 \/ ~IsWordChar(s[i - 1]))
     THEN UpperChar(s[i]) ELSE s[i]]

\* category.replace('-', ' ').replace(/\b\w/g, l => l.toUpperCase())
CategoryName(category) ==
  capitalizeWords(replaceFirst(CategoryChars(category), "-", " "))

\* Category weights, in tenths
getCategoryWeight(category) ==
  IF category = "safety-requirements" THEN 10
  ELSE IF category = "regulatory-compliance" THEN 9
  ELSE IF category \in {"material-specifications", "performance-standards"} THEN 8
  ELSE IF category \in {"dimensional-requirements", "testing-requirements"} THEN 7
  ELSE IF category \in {"quality-control", "installation-procedures"} THEN 6
  ELSE IF category \in {"documentation", "environmental-considerations"} THEN 5
  ELSE 5

\* comparison.similarities.find(s => s.specificationSection === section.id)
HasMatch(similarities, id) ==
  \E k \in 1..Len(similarities) : similarities[k].specificationSection = id

FirstMatch(similarities, id) ==
  similarities[CHOOSE k \in 1..Len(similarities) :
     /\ similarities[k].specificationSection = id
     /\ \A j \in 1..(k - 1) : similarities[j].specificationSection # id]

\* comparison.differences.filter(critical, same category).map(d => d.impact)
CriticalImpacts(differences, category) ==
  LET sel == SelectSeq(differences,
               LAMBDA d : d.severity = "critical" /\ d.category = category)
  IN  [k \in 1..Len(sel) |-> sel[k].impact]

\* The loop "Analyze compliance by category", restricted to one category
RECURSIVE TallyFrom(_, _, _, _, _)
TallyFrom(comparison, specificationSections, cat, i, acc) ==
  IF i > Len(specificationSections) THEN acc
  ELSE LET section == specificationSections[i] IN
       IF section.category # cat
       THEN TallyFrom(comparison, specificationSections, cat, i + 1, acc)
       ELSE TallyFrom(comparison, specificationSections, cat, i + 1,
              [acc EXCEPT
                 !.items_checked = @ + 1,
                 !.items_passed =
                    IF /\ HasMatch(comparison.similarities, section.id)
                       /\ RatLt(PassedThreshold,
                            FirstMatch(comparison.similarities, section.id).matchScore)
                    THEN @ + 1 ELSE @,
                 !.critical_failures =
                    @ \o CriticalImpacts(comparison.differences, section.category)])

ConditionalScore == 60

\* Score of a category no specification section falls into
UncheckedScore == 100

\* Scoring that leaves a category without items at the score it was
\* initialised with
ScoreCategoryKeepsInitialScore(category, compliancePassScore) ==
  IF category.items_checked = 0
  THEN [category EXCEPT !.status = "review-required"]
  ELSE LET score == RoundRat(Rat(category.items_passed * 100, category.items_checked))
       IN  [category EXCEPT
              !.score = score,
              !.status = IF Len(category.critical_failures) > 0 THEN "fail"
                         ELSE IF score >= compliancePassScore THEN "pass"
                         ELSE IF score >= ConditionalScore THEN "conditional"
                         ELSE "fail"]

\* Scoring that looks at the pass score before the critical failures
ScoreCategoryPassBeforeFailures(category, compliancePassScore) ==
  IF category.items_checked = 0
  THEN [category EXCEPT !.status = "review-required", !.score = UncheckedScore]
  ELSE LET score == RoundRat(Rat(category.items_passed * 100, category.items_checked))
       IN  [category EXCEPT
              !.score = score,
              !.status = IF score >= compliancePassScore THEN "pass"
                         ELSE IF Len(category.critical_failures) > 0 THEN "fail"
                         ELSE IF score >= ConditionalScore THEN "conditional"
                         ELSE "fail"]

\* "Calculate scores and status for each category"
ScoreCategory(category, compliancePassScore) ==
  IF category.items_checked = 0
  THEN [category EXCEPT !.status = "review-required", !.score = UncheckedScore]
  ELSE LET score == RoundRat(Rat(category.items_passed * 100, category.items_checked))
       IN  [category EXCEPT
              !.score = score,
              !.status = IF Len(category.critical_failures) > 0 THEN "fail"
                         ELSE IF score >= compliancePassScore THEN "pass"
                         ELSE IF score >= ConditionalScore THEN "conditional"
                         ELSE "fail"]

\* A matrix built by a loop that stops one category short of the list
MatrixCategoriesButLast(comparison, specificationSections, cfg) ==
  [k \in 1..(Len(allCategories) - 1) |->
     ScoreCategory(
       TallyFrom(comparison, specificationSections, allCategories[k], 1,
         [name |-> CategoryName(allCategories[k]),
          score |-> 0,
          weight |-> getCategoryWeight(allCategories[k]),
          status |-> "review-required",
          items_checked |-> 0,
          items_passed |-> 0,
          critical_failures |-> <<>>,
          recommendations |-> <<>>]),
       cfg.compliancePassScore)]

MatrixCategories(comparison, specificationSections, cfg) ==
  [k \in 1..Len(allCategories) |->
     ScoreCategory(
       TallyFrom(comparison, specificationSections, allCategories[k], 1,
         [name |-> CategoryName(allCategories[k]),
          score |-> 0,
          weight |-> getCategoryWeight(allCategories[k]),
          status |-> "review-required",
          items_checked |-> 0,
          items_passed |-> 0,
          critical_failures |-> <<>>,
          recommendations |-> <<>>]),
       cfg.compliancePassScore)]

\* categories.reduce((sum, cat) => sum + cat.score * cat.weight, 0)
RECURSIVE SumScoreWeight(_)
SumScoreWeight(categories) ==
  IF categories = <<>> THEN 0
  ELSE Head(categories).score * Head(categories).weight
       + SumScoreWeight(Tail(categories))

\* categories.reduce((sum, cat) => sum + cat.weight, 0)
RECURSIVE SumWeight(_)
SumWeight(categories) ==
  IF categories = <<>> THEN 0
  ELSE Head(categories).weight + SumWeight(Tail(categories))

\* The plain mean of the category scores, every category counting the same
RECURSIVE SumCategoryScores(_)
SumCategoryScores(categories) ==
  IF categories = <<>> THEN 0
  ELSE Head(categories).score + SumCategoryScores(Tail(categories))

UnweightedScore(categories) ==
  RoundRat(Rat(SumCategoryScores(categories), Len(categories)))

\* Math.round(Sum(score * weight) / Sum(weight))
WeightedScore(categories) ==
  RoundRat(Rat(SumScoreWeight(categories), SumWeight(categories)))

CountWhere(s, P(_)) == Len(SelectSeq(s, P))

generateComplianceMatrixSummary(categories, comparison) ==
  <<CountWhere(categories, LAMBDA c : c.status = "pass"), "/", Len(categories),
    " categories passed. ", Len(comparison.missingElements),
    " missing elements identified.">>

calculateComplianceMatrix(comparison, submittalSections, specificationSections, cfg) ==
  LET categories == MatrixCategories(comparison, specificationSections, cfg)
  IN  [overall_score |-> WeightedScore(categories),
       categories |-> categories,
       summary |-> generateComplianceMatrixSummary(categories, comparison),
       critical_issues |->
         CountWhere(comparison.differences, LAMBDA d : d.severity = "critical"),
       major_issues |->
         CountWhere(comparison.differences, LAMBDA d : d.severity = "major"),
       minor_issues |->
         CountWhere(comparison.differences, LAMBDA d : d.severity = "minor"),
       compliant_items |->
         CountWhere(comparison.similarities,
                    LAMBDA s : RatLt(ExactThreshold, s.matchScore))]

\* ------------------------------------------------------------------------
\* Detailed findings.  A calendar date is the number of its day; `today` is
\* the day new Date() reads.
\* ------------------------------------------------------------------------
mapCriticalityToSeverity(criticality) == criticality

CriticalDeadlineDays == 3
MajorDeadlineDays == 7
MinorDeadlineDays == 14

calculateDeadline(criticality, today) ==
  today + (IF criticality = "critical" THEN CriticalDeadlineDays
           ELSE IF criticality = "major" THEN MajorDeadlineDays
           ELSE MinorDeadlineDays)

mapCriticalityToImpact(criticality) ==
  IF criticality = "critical" THEN "critical"
  ELSE IF criticality = "major" THEN "high" ELSE "medium"

mapCriticalityToUrgency(criticality) ==
  IF criticality = "critical" THEN "immediate"
  ELSE IF criticality = "major" THEN "high" ELSE "medium"

estimateEffort(criticality) ==
  IF criticality = "critical" THEN "major"
  ELSE IF criticality = "major" THEN "significant" ELSE "moderate"

mapCriticalityToRisk(criticality) ==
  IF criticality = "critical" THEN "critical"
  ELSE IF criticality = "major" THEN "high" ELSE "medium"

calculateTimeline(criticality) ==
  IF criticality = "critical" THEN "1-3 days"
  ELSE IF criticality = "major" THEN "1-2 weeks" ELSE "2-4 weeks"

MissingFinding(missing, findingId, today) ==
  [id |-> <<"finding-", findingId>>,
   category |-> missing.category,
   severity |-> mapCriticalityToSeverity(missing.criticality),
   title |-> <<"Missing Required Information: ", missing.specificationRequirement>>,
   description |-> "The submittal does not include required information specified in the project specifications.",
   location |-> [section |-> missing.specificationRequirement,
                 excerpt |-> missing.specificationRequirement],
   compliance |-> "non-compliant",
   confidence |-> Rat(9, 10),
   requiredAction |-> missing.suggestedAction,
   deadline |-> calculateDeadline(missing.criticality, today),
   section |-> missing.specificationRequirement,
   context |-> "Required by specification but not provided in submittal",
   impact |-> mapCriticalityToImpact(missing.criticality),
   urgency |-> mapCriticalityToUrgency(missing.criticality),
   effort |-> estimateEffort(missing.criticality),
   riskLevel |-> mapCriticalityToRisk(missing.criticality),
   complianceStatus |-> "non-compliant",
   corrective_action |-> missing.suggestedAction,
   timeline |-> calculateTimeline(missing.criticality),
   responsible_party |-> "Submittal Preparer",
   verification_method |-> "Document Review",
   relatedFindings |-> <<>>,
   attachments |-> <<>>]

ExcerptLen == 50

DifferenceFinding(difference, findingId) ==
  [id |-> <<"finding-", findingId>>,
   category |-> difference.category,
   severity |-> difference.severity,
   title |-> <<"Specification Deviation: ", difference.category>>,
   description |-> "Submittal content does not match specification requirements.",
   location |->
     [section |-> <<SubSeq(difference.submittalContent, 1,
                      IF Len(difference.submittalContent) < ExcerptLen
                      THEN Len(difference.submittalContent) ELSE ExcerptLen),
                    "...">>,
      excerpt |-> difference.submittalContent],
   compliance |-> "non-compliant",
   confidence |-> Rat(8, 10),
   requiredAction |->
     <<"Revise submittal to match specification requirements: ",
       difference.specificationRequirement>>,
   section |-> difference.category,
   context |-> <<"Specification requires: ", difference.specificationRequirement,
                 ". Submittal provides: ", difference.submittalContent>>,
   impact |-> mapCriticalityToImpact(difference.severity),
   urgency |-> mapCriticalityToUrgency(difference.severity),
   effort |-> estimateEffort(difference.severity),
   riskLevel |-> mapCriticalityToRisk(difference.severity),
   complianceStatus |-> "non-compliant",
   corrective_action |-> "Revise to match specification requirements",
   timeline |-> calculateTimeline(difference.severity),
   responsible_party |-> "Submittal Preparer",
   verification_method |-> "Document Review and Comparison",
   relatedFindings |-> <<>>,
   attachments |-> <<>>]

RECURSIVE DifferenceFindingsFrom(_, _, _)
DifferenceFindingsFrom(differences, i, findingId) ==
  IF i > Len(differences) THEN <<>>
  ELSE IF differences[i].correctionRequired
       THEN <<DifferenceFinding(differences[i], findingId + 1)>>
            \o DifferenceFindingsFrom(differences, i + 1, findingId + 1)
       ELSE DifferenceFindingsFrom(differences, i + 1, findingId)

\* generateDetailedFindings turning every difference into a finding, whether
\* or not it requires correction
generateDetailedFindingsOfEveryDifference(comparison, submittalSections, specificationSections, today) ==
  [k \in 1..Len(comparison.missingElements) |->
     MissingFinding(comparison.missingElements[k], k, today)]
  \o [k \in 1..Len(comparison.differences) |->
        DifferenceFinding(comparison.differences[k],
                          Len(comparison.missingElements) + k)]

generateDetailedFindings(comparison, submittalSections, specificationSections, today) ==
  [k \in 1..Len(comparison.missingElements) |->
     MissingFinding(comparison.missingElements[k], k, today)]
  \o DifferenceFindingsFrom(comparison.differences, 1,
                            Len(comparison.missingElements))

\* ------------------------------------------------------------------------
\* Risk assessment
\* ------------------------------------------------------------------------
ComplianceRiskScore == 9
DelayRiskScore == 6
DelayRiskMajorFindings == 2

RECURSIVE MaxRiskScore(_)
MaxRiskScore(riskFactors) ==
  IF riskFactors = <<>> THEN 0
  ELSE LET m == MaxRiskScore(Tail(riskFactors))
       IN  IF Head(riskFactors).risk_score > m THEN Head(riskFactors).risk_score ELSE m

\* assessRisks emitting the Project Delay Risk factor from two major
\* findings on
assessRisksDelayFromTwo(findings, comparison) ==
  LET criticalFindings == SelectSeq(findings, LAMBDA f : f.severity = "critical")
      majorFindings == SelectSeq(findings, LAMBDA f : f.severity = "major")
      riskFactors ==
        (IF Len(criticalFindings) > 0
         THEN << [category |-> "Compliance Risk",
                  description |-> <<Len(criticalFindings),
                                    " critical compliance issues identified">>,
                  probability |-> "high",
                  impact |-> "critical",
                  risk_score |-> ComplianceRiskScore,
                  mitigation_required |-> TRUE] >>
         ELSE <<>>)
        \o
        (IF Len(majorFindings) >= DelayRiskMajorFindings
         THEN << [category |-> "Project Delay Risk",
                  description |-> <<"Multiple major issues may cause project delays">>,
                  probability |-> "medium",
                  impact |-> "high",
                  risk_score |-> DelayRiskScore,
                  mitigation_required |-> TRUE] >>
         ELSE <<>>)
      mitigationStrategies ==
        IF Len(criticalFindings) > 0
        THEN << [risk_id |-> "compliance-risk",
                 strategy |-> "Immediate revision of submittal to address critical issues",
                 implementation_effort |-> "high",
                 effectiveness |-> "high",
                 timeline |-> "1-2 weeks",
                 responsible_party |-> "Design Team"] >>
        ELSE <<>>
      maxRiskScore == MaxRiskScore(riskFactors)
  IN  [overall_risk |-> IF maxRiskScore >= 8 THEN "critical"
                        ELSE IF maxRiskScore >= 6 THEN "high"
                        ELSE IF maxRiskScore >= 4 THEN "medium"
                        ELSE "low",
       risk_factors |-> riskFactors,
       mitigation_strategies |-> mitigationStrategies,
       residual_risk |-> "medium"]

assessRisks(findings, comparison) ==
  LET criticalFindings == SelectSeq(findings, LAMBDA f : f.severity = "critical")
      majorFindings == SelectSeq(findings, LAMBDA f : f.severity = "major")
      riskFactors ==
        (IF Len(criticalFindings) > 0
         THEN << [category |-> "Compliance Risk",
                  description |-> <<Len(criticalFindings),
                                    " critical compliance issues identified">>,
                  probability |-> "high",
                  impact |-> "critical",
                  risk_score |-> ComplianceRiskScore,
                  mitigation_required |-> TRUE] >>
         ELSE <<>>)
        \o
        (IF Len(majorFindings) > DelayRiskMajorFindings
         THEN << [category |-> "Project Delay Risk",
                  description |-> <<"Multiple major issues may cause project delays">>,
                  probability |-> "medium",
                  impact |-> "high",
                  risk_score |-> DelayRiskScore,
                  mitigation_required |-> TRUE] >>
         ELSE <<>>)
      mitigationStrategies ==
        IF Len(criticalFindings) > 0
        THEN << [risk_id |-> "compliance-risk",
                 strategy |-> "Immediate revision of submittal to address critical issues",
                 implementation_effort |-> "high",
                 effectiveness |-> "high",
                 timeline |-> "1-2 weeks",
                 responsible_party |-> "Design Team"] >>
        ELSE <<>>
      maxRiskScore == MaxRiskScore(riskFactors)
  IN  [overall_risk |-> IF maxRiskScore >= 8 THEN "critical"
                        ELSE IF maxRiskScore >= 6 THEN "high"
                        ELSE IF maxRiskScore >= 4 THEN "medium"
                        ELSE "low",
       risk_factors |-> riskFactors,
       mitigation_strategies |-> mitigationStrategies,
       residual_risk |-> "medium"]

\* ------------------------------------------------------------------------
\* Quality metrics
\* ------------------------------------------------------------------------
\* calculateCompletenessScore without the early return: nothing required
\* counts as nothing provided
calculateCompletenessScoreNoneRequired(submittalSections, specificationSections) ==
  IF Len(specificationSections) = 0 THEN 0
  ELSE LET pct == RoundRat(Rat(Len(submittalSections) * 100,
                               Len(specificationSections)))
       IN  IF pct < 100 THEN pct ELSE 100

calculateCompletenessScore(submittalSections, specificationSections) ==
  IF Len(specificationSections) = 0 THEN 100
  ELSE LET pct == RoundRat(Rat(Len(submittalSections) * 100,
                               Len(specificationSections)))
       IN  IF pct < 100 THEN pct ELSE 100

Max2(a, b) == IF a >= b THEN a ELSE b
Min2(a, b) == IF a <= b THEN a ELSE b

\* f.description.includes('inconsistent'): neither description the engine
\* writes contains the word
DescriptionIncludesInconsistent(description) == FALSE

ImprovementThreshold == 70

\* calculateQualityMetrics taking the mean over the rounded
\* compliance_readiness
calculateQualityMetricsMeanOfRounded(submittalText, specificationText, findings) ==
  LET criticalIssues == CountWhere(findings, LAMBDA f : f.severity = "critical")
      majorIssues == CountWhere(findings, LAMBDA f : f.severity = "major")
      documentation_quality ==
        Max2(0, 100 - (criticalIssues * 20 + majorIssues * 10))
      technical_accuracy ==
        Max2(0, 100 - (criticalIssues * 15 + majorIssues * 8))
      completeness ==
        calculateCompletenessScore(extractSections(submittalText),
                                   extractSections(specificationText))
      clarity == Min2(100, Max2(50, 100 - Len(findings) * 5))
      consistency ==
        Max2(0, 100 - 10 * CountWhere(findings,
                   LAMBDA f : \/ f.category = "documentation"
                              \/ DescriptionIncludesInconsistent(f.description)))
      compliance_readiness ==
        Rat(documentation_quality * 6 + technical_accuracy * 4, 10)
      overall_quality ==
        RoundRat(RatDivInt(
          RatAdd(RatOfInt(documentation_quality + technical_accuracy
                          + completeness + clarity + consistency),
                 RatOfInt(RoundRat(compliance_readiness))), 6))
  IN  [documentation_quality |-> documentation_quality,
       technical_accuracy |-> technical_accuracy,
       completeness |-> completeness,
       clarity |-> clarity,
       consistency |-> consistency,
       compliance_readiness |-> RoundRat(compliance_readiness),
       overall_quality |-> overall_quality,
       improvement_areas |->
         (IF documentation_quality < ImprovementThreshold
          THEN <<"Documentation Quality">> ELSE <<>>)
         \o (IF technical_accuracy < ImprovementThreshold
             THEN <<"Technical Accuracy">> ELSE <<>>)
         \o (IF completeness < ImprovementThreshold
             THEN <<"Completeness">> ELSE <<>>)
         \o (IF clarity < ImprovementThreshold THEN <<"Clarity">> ELSE <<>>)
         \o (IF consistency < ImprovementThreshold
             THEN <<"Consistency">> ELSE <<>>)]

calculateQualityMetrics(submittalText, specificationText, findings) ==
  LET criticalIssues == CountWhere(findings, LAMBDA f : f.severity = "critical")
      majorIssues == CountWhere(findings, LAMBDA f : f.severity = "major")
      documentation_quality ==
        Max2(0, 100 - (criticalIssues * 20 + majorIssues * 10))
      technical_accuracy ==
        Max2(0, 100 - (criticalIssues * 15 + majorIssues * 8))
      completeness ==
        calculateCompletenessScore(extractSections(submittalText),
                                   extractSections(specificationText))
      clarity == Min2(100, Max2(50, 100 - Len(findings) * 5))
      consistency ==
        Max2(0, 100 - 10 * CountWhere(findings,
                   LAMBDA f : \/ f.category = "documentation"
                              \/ DescriptionIncludesInconsistent(f.description)))
      compliance_readiness ==
        Rat(documentation_quality * 6 + technical_accuracy * 4, 10)
      overall_quality ==
        RoundRat(RatDivInt(
          RatAdd(RatOfInt(documentation_quality + technical_accuracy
                          + completeness + clarity + consistency),
                 compliance_readiness), 6))
  IN  [documentation_quality |-> documentation_quality,
       technical_accuracy |-> technical_accuracy,
       completeness |-> completeness,
       clarity |-> clarity,
       consistency |-> consistency,
       compliance_readiness |-> RoundRat(compliance_readiness),
       overall_quality |-> overall_quality,
       improvement_areas |->
         (IF documentation_quality < ImprovementThreshold
          THEN <<"Documentation Quality">> ELSE <<>>)
         \o (IF technical_accuracy < ImprovementThreshold
             THEN <<"Technical Accuracy">> ELSE <<>>)
         \o (IF completeness < ImprovementThreshold
             THEN <<"Completeness">> ELSE <<>>)
         \o (IF clarity < ImprovementThreshold THEN <<"Clarity">> ELSE <<>>)
         \o (IF consistency < ImprovementThreshold
             THEN <<"Consistency">> ELSE <<>>)]

\* ------------------------------------------------------------------------
\* Action items
\* ------------------------------------------------------------------------
calculateDueDate(days, today) == today + days

FindingIds(findings) == [k \in 1..Len(findings) |-> findings[k].id]

\* generateActionItems whose major item names action-1 as a dependency
\* whether or not a critical item was emitted
generateActionItemsAlwaysDepends(findings, riskAssessment, today) ==
  LET criticalFindings == SelectSeq(findings, LAMBDA f : f.severity = "critical")
      majorFindings == SelectSeq(findings, LAMBDA f : f.severity = "major")
      hasCritical == Len(criticalFindings) > 0
      hasMajor == Len(majorFindings) > 0
  IN  (IF hasCritical
       THEN << [id |-> <<"action-", 1>>,
                title |-> "Address Critical Compliance Issues",
                description |-> <<"Resolve ", Len(criticalFindings),
                                  " critical compliance issues">>,
                priority |-> "critical",
                category |-> "compliance",
                assigned_to |-> "Design Team Lead",
                due_date |-> calculateDueDate(7, today),
                estimated_hours |-> Len(criticalFindings) * 4,
                dependencies |-> <<>>,
                status |-> "pending",
                related_findings |-> FindingIds(criticalFindings)] >>
       ELSE <<>>)
      \o
      (IF hasMajor
       THEN << [id |-> <<"action-", IF hasCritical THEN 2 ELSE 1>>,
                title |-> "Resolve Major Issues",
                description |-> <<"Address ", Len(majorFindings),
                                  " major compliance issues">>,
                priority |-> "high",
                category |-> "compliance",
                assigned_to |-> "Design Team",
                due_date |-> calculateDueDate(14, today),
                estimated_hours |-> Len(majorFindings) * 2,
                dependencies |-> << <<"action-", 1>> >>,
                status |-> "pending",
                related_findings |-> FindingIds(majorFindings)] >>
       ELSE <<>>)
      \o
      (IF Len(findings) > 0
       THEN << [id |-> <<"action-", (IF hasCritical THEN 1 ELSE 0)
                                    + (IF hasMajor THEN 1 ELSE 0) + 1>>,
                title |-> "Quality Review and Documentation",
                description |-> <<"Comprehensive quality review of submittal documentation">>,
                priority |-> "medium",
                category |-> "quality-control",
                assigned_to |-> "Quality Reviewer",
                due_date |-> calculateDueDate(21, today),
                estimated_hours |-> 8,
                dependencies |-> <<>>,
                status |-> "pending",
                related_findings |-> FindingIds(findings)] >>
       ELSE <<>>)

generateActionItems(findings, riskAssessment, today) ==
  LET criticalFindings == SelectSeq(findings, LAMBDA f : f.severity = "critical")
      majorFindings == SelectSeq(findings, LAMBDA f : f.severity = "major")
      hasCritical == Len(criticalFindings) > 0
      hasMajor == Len(majorFindings) > 0
  IN  (IF hasCritical
       THEN << [id |-> <<"action-", 1>>,
                title |-> "Address Critical Compliance Issues",
                description |-> <<"Resolve ", Len(criticalFindings),
                                  " critical compliance issues">>,
                priority |-> "critical",
                category |-> "compliance",
                assigned_to |-> "Design Team Lead",
                due_date |-> calculateDueDate(7, today),
                estimated_hours |-> Len(criticalFindings) * 4,
                dependencies |-> <<>>,
                status |-> "pending",
                related_findings |-> FindingIds(criticalFindings)] >>
       ELSE <<>>)
      \o
      (IF hasMajor
       THEN << [id |-> <<"action-", IF hasCritical THEN 2 ELSE 1>>,
                title |-> "Resolve Major Issues",
                description |-> <<"Address ", Len(majorFindings),
                                  " major compliance issues">>,
                priority |-> "high",
                category |-> "compliance",
                assigned_to |-> "Design Team",
                due_date |-> calculateDueDate(14, today),
                estimated_hours |-> Len(majorFindings) * 2,
                dependencies |-> IF hasCritical THEN << <<"action-", 1>> >> ELSE <<>>,
                status |-> "pending",
                related_findings |-> FindingIds(majorFindings)] >>
       ELSE <<>>)
      \o
      (IF Len(findings) > 0
       THEN << [id |-> <<"action-", (IF hasCritical THEN 1 ELSE 0)
                                    + (IF hasMajor THEN 1 ELSE 0) + 1>>,
                title |-> "Quality Review and Documentation",
                description |-> <<"Comprehensive quality review of submittal documentation">>,
                priority |-> "medium",
                category |-> "quality-control",
                assigned_to |-> "Quality Reviewer",
                due_date |-> calculateDueDate(21, today),
                estimated_hours |-> 8,
                dependencies |-> <<>>,
                status |-> "pending",
                related_findings |-> FindingIds(findings)] >>
       ELSE <<>>)

\* ------------------------------------------------------------------------
\* Result assembly
\* ------------------------------------------------------------------------
convertToBaseFindings(detailedFindings) ==
  [k \in 1..Len(detailedFindings) |->
     LET df == detailedFindings[k] IN
     [id |-> df.id,
      category |-> df.category,
      severity |-> df.severity,
      title |-> df.title,
      description |-> df.description,
      location |-> df.location,
      compliance |-> IF df.complianceStatus = "compliant" THEN "compliant"
                     ELSE IF df.complianceStatus = "non-compliant"
                          THEN "non-compliant" ELSE "unclear",
      requiredAction |-> df.corrective_action,
      deadline |-> df.timeline,
      confidence |-> df.confidence]]

generateRecommendations(findings, riskAssessment) ==
  IF CountWhere(findings, LAMBDA f : f.severity = "critical") > 0
  THEN << [id |-> "critical-issues",
           priority |-> "high",
           title |-> "Address Critical Compliance Issues",
           description |-> "Immediately address all critical compliance issues identified in the analysis",
           actionItems |-> <<"Review all critical findings",
                             "Revise submittal documentation",
                             "Obtain required approvals",
                             "Resubmit for review">>,
           estimatedEffort |-> "high",
           category |-> "regulatory-compliance"] >>
  ELSE <<>>

\* cat.name.toLowerCase().replace(' ', '-'), kept as characters
generateCategoryAnalysis(complianceMatrix) ==
  [k \in 1..Len(complianceMatrix.categories) |->
     LET cat == complianceMatrix.categories[k] IN
     [category |-> replaceFirst(toLowerCase(cat.name), " ", "-"),
      score |-> cat.score,
      status |-> IF cat.status = "pass" THEN "pass"
                 ELSE IF cat.status = "fail" THEN "fail"
                 ELSE IF cat.status = "conditional" THEN "partial"
                 ELSE "not-applicable",
      findingCount |-> Len(cat.critical_failures),
      summary |-> <<cat.items_passed, "/", cat.items_checked, " items compliant">>]]

CompliantScore == 90
PartiallyCompliantScore == 70

\* determineOverallAssessment looking at the score before the critical issues
determineOverallAssessmentScoreFirst(complianceMatrix) ==
  IF complianceMatrix.overall_score >= CompliantScore THEN "compliant"
  ELSE IF complianceMatrix.critical_issues > 0 THEN "non-compliant"
  ELSE IF complianceMatrix.overall_score >= PartiallyCompliantScore
       THEN "partially-compliant"
  ELSE "requires-review"

determineOverallAssessment(complianceMatrix) ==
  IF complianceMatrix.critical_issues > 0 THEN "non-compliant"
  ELSE IF complianceMatrix.overall_score >= CompliantScore THEN "compliant"
  ELSE IF complianceMatrix.overall_score >= PartiallyCompliantScore
       THEN "partially-compliant"
  ELSE "requires-review"

generateAnalysisSummary(complianceMatrix, findings, riskAssessment) ==
  <<"Analysis completed with ", complianceMatrix.overall_score,
    "% compliance score. ", complianceMatrix.critical_issues,
    " critical issues, ", complianceMatrix.major_issues,
    " major issues identified. Overall risk level: ",
    riskAssessment.overall_risk, ".">>

\* The object literal analyzeSubmittalCompliance returns (steps 8 to 10)
AssembleResult(fr, analysisId, today) ==
  [complianceScore |-> fr.complianceMatrix.overall_score,
   overallAssessment |-> determineOverallAssessment(fr.complianceMatrix),
   summary |-> generateAnalysisSummary(fr.complianceMatrix, fr.detailedFindings,
                                       fr.riskAssessment),
   findings |-> convertToBaseFindings(fr.detailedFindings),
   recommendations |-> generateRecommendations(fr.detailedFindings, fr.riskAssessment),
   categories |-> generateCategoryAnalysis(fr.complianceMatrix),
   confidence |-> fr.comparisonResult.confidenceScore,
   analysisMetadata |->
     [analysisId |-> analysisId,
      timestamp |-> today,
      modelUsed |-> "anthropic/claude-3.5-sonnet:beta",
      analysisType |-> "comparison",
      complexity |-> "comprehensive",
      processingTime |-> today,
      confidenceScore |-> fr.comparisonResult.confidenceScore,
      completenessScore |->
        RatOfInt(calculateCompletenessScore(fr.submittalSections,
                                            fr.specificationSections))],
   detailedFindings |-> fr.detailedFindings,
   complianceMatrix |-> fr.complianceMatrix,
   riskAssessment |-> fr.riskAssessment,
   qualityMetrics |-> fr.qualityMetrics,
   actionItems |-> fr.actionItems]

\* A degraded riskAssessment that reports the risk of an analysis that found
\* nothing
ErrorRiskAssessmentLow ==
  [overall_risk |-> "low",
   risk_factors |-> <<>>,
   mitigation_strategies |-> <<>>,
   residual_risk |-> "medium"]

\* The riskAssessment of the degraded result
ErrorRiskAssessment ==
  [overall_risk |-> "high",
   risk_factors |-> <<>>,
   mitigation_strategies |-> <<>>,
   residual_risk |-> "high"]

generateErrorResponse(analysisId, error, today) ==
  [complianceScore |-> 0,
   overallAssessment |-> "requires-review",
   summary |-> <<"Analysis engine encountered an error. Manual review required.">>,
   findings |-> <<>>,
   recommendations |-> <<>>,
   categories |-> <<>>,
   confidence |-> RatOfInt(0),
   analysisMetadata |->
     [analysisId |-> analysisId,
      timestamp |-> today,
      modelUsed |-> "anthropic/claude-3.5-sonnet:beta",
      analysisType |-> "comparison",
      complexity |-> "comprehensive",
      processingTime |-> 0,
      confidenceScore |-> RatOfInt(0),
      completenessScore |-> RatOfInt(0),
      reviewerNotes |-> <<"Error: ", error>>],
   detailedFindings |-> <<>>,
   complianceMatrix |->
     [overall_score |-> 0,
      categories |-> <<>>,
      summary |-> <<"Analysis failed">>,
      critical_issues |-> 0,
      major_issues |-> 0,
      minor_issues |-> 0,
      compliant_items |-> 0],
   riskAssessment |-> ErrorRiskAssessment,
   qualityMetrics |->
     [documentation_quality |-> 0,
      technical_accuracy |-> 0,
      completeness |-> 0,
      clarity |-> 0,
      consistency |-> 0,
      compliance_readiness |-> 0,
      overall_quality |-> 0,
      improvement_areas |-> <<"Analysis failed - manual review required">>],
   actionItems |-> <<>>]

\* ------------------------------------------------------------------------
\* JavaScript values, for the data the schema validator is handed (unknown
\* at compile time): a value carries its runtime type.  A number is an exact
\* rational; an object is a function from its keys; a key whose value is
\* undefined is a key the object does not have.
\* ------------------------------------------------------------------------
Undef == [t |-> "undefined"]
Null == [t |-> "null"]
Num(r) == [t |-> "number", v |-> r]
N(k) == Num(RatOfInt(k))
Str(s) == [t |-> "string", v |-> s]
Bool(b) == [t |-> "boolean", v |-> b]
Arr(a) == [t |-> "array", v |-> a]
EmptyObject == [k \in {} |-> Undef]

\* An object literal: the keys given an undefined value are left out
Obj(fields) ==
  [t |-> "object",
   v |-> [k \in {g \in DOMAIN fields : fields[g].t # "undefined"} |-> fields[k]]]

IsNullish(x) == x.t \in {"undefined", "null"}

\* data.key and data?.key
Get(x, key) ==
  IF x.t = "object" /\ key \in DOMAIN x.v THEN x.v[key] ELSE Undef

\* a ?? b
Coalesce(a, b) == IF IsNullish(a) THEN b ELSE a

\* !x
Falsy(x) ==
  \/ IsNullish(x)
  \/ x.t = "boolean" /\ ~x.v
  \/ x.t = "number" /\ x.v.n = 0
  \/ x.t = "string" /\ x.v = ""

\* a || b
OrElse(a, b) == IF Falsy(a) THEN b ELSE a

\* Array.isArray(x)
IsArray(x) == x.t = "array"

\* The same value: the same type and, where the type has a payload, the
\* same payload
RECURSIVE JsSame(_, _)
JsSame(a, b) ==
  /\ a.t = b.t
  /\ CASE a.t \in {"undefined", "null"} -> TRUE
       [] a.t = "array" ->
            /\ Len(a.v) = Len(b.v)
            /\ \A k \in 1..Len(a.v) : JsSame(a.v[k], b.v[k])
       [] a.t = "object" ->
            /\ DOMAIN a.v = DOMAIN b.v
            /\ \A k \in DOMAIN a.v : JsSame(a.v[k], b.v[k])
       [] OTHER -> a.v = b.v

\* ------------------------------------------------------------------------
\* zod schemas as data, and z.parse
\* ------------------------------------------------------------------------
NoBound == [has |-> FALSE]
Bound(k) == [has |-> TRUE, v |-> RatOfInt(k)]

ZNumberIn(lo, hi) == [k |-> "number", min |-> lo, max |-> hi]
ZNumber == ZNumberIn(NoBound, NoBound)
ZNumberMin(lo) == ZNumberIn(Bound(lo), NoBound)
ZRange(lo, hi) == ZNumberIn(Bound(lo), Bound(hi))
ZString == [k |-> "string"]
ZBoolean == [k |-> "boolean"]
ZEnum(values) == [k |-> "enum", values |-> values]
ZArray(of) == [k |-> "array", of |-> of]
ZObject(fields) == [k |-> "object", fields |-> fields]
ZOptional(of) == [k |-> "optional", of |-> of]
ZNullable(of) == [k |-> "nullable", of |-> of]
ZDefault(of, dflt) == [k |-> "default", of |-> of, dflt |-> dflt]

\* base.extend(more)
ZExtend(base, more) == ZObject(more @@ base.fields)

ParseOk(v) == [ok |-> TRUE, value |-> v]
ParseFail == [ok |-> FALSE, value |-> Undef]

\* schema.parse(value): the parsed value, or failure where parse throws.
\* An object schema drops the keys it does not declare; a default fills an
\* undefined value.
RECURSIVE Parse(_, _)
Parse(schema, value) ==
  CASE schema.k = "number" ->
         IF /\ value.t = "number"
            /\ (schema.min.has => RatLeq(schema.min.v, value.v))
            /\ (schema.max.has => RatLeq(value.v, schema.max.v))
         THEN ParseOk(value) ELSE ParseFail
    [] schema.k = "string" ->
         IF value.t = "string" THEN ParseOk(value) ELSE ParseFail
    [] schema.k = "boolean" ->
         IF value.t = "boolean" THEN ParseOk(value) ELSE ParseFail
    [] schema.k = "enum" ->
         IF value.t = "string" /\ value.v \in schema.values
         THEN ParseOk(value) ELSE ParseFail
    [] schema.k = "optional" ->
         IF value.t = "undefined" THEN ParseOk(Undef)
         ELSE Parse(schema.of, value)
    [] schema.k = "nullable" ->
         IF value.t = "null" THEN ParseOk(Null)
         ELSE Parse(schema.of, value)
    [] schema.k = "default" ->
         IF value.t = "undefined" THEN ParseOk(schema.dflt)
         ELSE Parse(schema.of, value)
    [] schema.k = "array" ->
         IF value.t # "array" THEN ParseFail
         ELSE LET items == [i \in 1..Len(value.v) |-> Parse(schema.of, value.v[i])]
              IN  IF \A i \in 1..Len(items) : items[i].ok
                  THEN ParseOk(Arr([i \in 1..Len(items) |-> items[i].value]))
                  ELSE ParseFail
    [] schema.k = "object" ->
         IF value.t # "object" THEN ParseFail
         ELSE LET parts == [f \in DOMAIN schema.fields |->
                              Parse(schema.fields[f], Get(value, f))]
              IN  IF \A f \in DOMAIN parts : parts[f].ok
                  THEN ParseOk(Obj([f \in DOMAIN parts |-> parts[f].value]))
                  ELSE ParseFail

SeveritySchema == ZEnum({"critical", "major", "minor", "informational"})
RiskLevelSchema == ZEnum({"low", "medium", "high", "critical"})
ComplianceStatusSchema ==
  ZEnum({"compliant", "non-compliant", "partially-compliant", "unclear"})
OverallAssessmentValues ==
  {"compliant", "non-compliant", "partially-compliant", "requires-review"}
OverallAssessmentSchema == ZEnum(OverallAssessmentValues)
FindingCategoryValues ==
  {"material-specifications", "dimensional-requirements",
   "performance-standards", "testing-requirements",
   "installation-procedures", "quality-control", "documentation",
   "regulatory-compliance", "safety-requirements",
   "environmental-considerations"}
FindingCategorySchema == ZEnum(FindingCategoryValues)
LowMediumHigh == ZEnum({"low", "medium", "high"})
ImpactDirection == ZEnum({"decrease", "neutral", "increase"})

DocumentLocationSchema ==
  ZObject([page |-> ZOptional(ZNumber),
           section |-> ZOptional(ZString),
           paragraph |-> ZOptional(ZNumber),
           lineNumber |-> ZOptional(ZNumber),
           excerpt |-> ZString])

FindingSchema ==
  ZObject([id |-> ZString,
           category |-> FindingCategorySchema,
           severity |-> SeveritySchema,
           title |-> ZString,
           description |-> ZString,
           location |-> DocumentLocationSchema,
           compliance |-> ComplianceStatusSchema,
           requiredAction |-> ZOptional(ZString),
           deadline |-> ZOptional(ZString),
           confidence |-> ZRange(0, 1)])

DetailedFindingSchema ==
  ZExtend(FindingSchema,
    [section |-> ZString,
     subsection |-> ZOptional(ZString),
     pageNumber |-> ZOptional(ZNumber),
     lineNumber |-> ZOptional(ZNumber),
     context |-> ZString,
     impact |-> ZEnum({"low", "medium", "high", "critical"}),
     urgency |-> ZEnum({"low", "medium", "high", "immediate"}),
     effort |-> ZEnum({"minimal", "moderate", "significant", "major"}),
     riskLevel |-> RiskLevelSchema,
     complianceStatus |->
       ZEnum({"compliant", "non-compliant", "partially-compliant", "unclear"}),
     corrective_action |-> ZString,
     timeline |-> ZString,
     responsible_party |-> ZString,
     verification_method |-> ZString,
     relatedFindings |-> ZDefault(ZArray(ZString), Arr(<<>>)),
     attachments |-> ZDefault(ZArray(ZString), Arr(<<>>))])

RecommendationSchema ==
  ZObject([id |-> ZString,
           priority |-> ZEnum({"high", "medium", "low"}),
           title |-> ZString,
           description |-> ZString,
           actionItems |-> ZArray(ZString),
           estimatedEffort |-> LowMediumHigh,
           category |-> FindingCategorySchema])

CategoryAnalysisSchema ==
  ZObject([category |-> FindingCategorySchema,
           score |-> ZRange(0, 100),
           status |-> ZEnum({"pass", "fail", "partial", "not-applicable"}),
           findingCount |-> ZNumberMin(0),
           summary |-> ZString])

ComplianceCategorySchema ==
  ZObject([name |-> ZString,
           score |-> ZRange(0, 100),
           weight |-> ZRange(0, 1),
           status |-> ZEnum({"pass", "fail", "conditional", "review-required"}),
           items_checked |-> ZNumberMin(0),
           items_passed |-> ZNumberMin(0),
           critical_failures |-> ZArray(ZString),
           recommendations |-> ZArray(ZString)])

ComplianceMatrixSchema ==
  ZObject([overall_score |-> ZRange(0, 100),
           categories |-> ZArray(ComplianceCategorySchema),
           summary |-> ZString,
           critical_issues |-> ZNumberMin(0),
           major_issues |-> ZNumberMin(0),
           minor_issues |-> ZNumberMin(0),
           compliant_items |-> ZNumberMin(0)])

RiskFactorSchema ==
  ZObject([category |-> ZString,
           description |-> ZString,
           probability |-> LowMediumHigh,
           impact |-> ZEnum({"low", "medium", "high", "critical"}),
           risk_score |-> ZRange(0, 10),
           mitigation_required |-> ZBoolean])

MitigationStrategySchema ==
  ZObject([risk_id |-> ZString,
           strategy |-> ZString,
           implementation_effort |-> LowMediumHigh,
           effectiveness |-> LowMediumHigh,
           timeline |-> ZString,
           responsible_party |-> ZString])

RiskAssessmentSchema ==
  ZObject([overall_risk |-> RiskLevelSchema,
           risk_factors |-> ZArray(RiskFactorSchema),
           mitigation_strategies |-> ZArray(MitigationStrategySchema),
           residual_risk |-> RiskLevelSchema])

QualityMetricsSchema ==
  ZObject([documentation_quality |-> ZRange(0, 100),
           technical_accuracy |-> ZRange(0, 100),
           completeness |-> ZRange(0, 100),
           clarity |-> ZRange(0, 100),
           consistency |-> ZRange(0, 100),
           compliance_readiness |-> ZRange(0, 100),
           overall_quality |-> ZRange(0, 100),
           improvement_areas |-> ZArray(ZString)])

ActionItemSchema ==
  ZObject([id |-> ZString,
           title |-> ZString,
           description |-> ZString,
           priority |-> ZEnum({"low", "medium", "high", "critical"}),
           category |-> ZString,
           assigned_to |-> ZString,
           due_date |-> ZOptional(ZString),
           estimated_hours |-> ZOptional(ZNumber),
           dependencies |-> ZDefault(ZArray(ZString), Arr(<<>>)),
           status |-> ZEnum({"pending", "in-progress", "completed", "blocked"}),
           related_findings |-> ZArray(ZString)])

AlternativeOptionSchema ==
  ZObject([id |-> ZString,
           title |-> ZString,
           description |-> ZString,
           pros |-> ZArray(ZString),
           cons |-> ZArray(ZString),
           cost_impact |-> ImpactDirection,
           schedule_impact |-> ImpactDirection,
           quality_impact |-> ImpactDirection,
           compliance_impact |-> ZEnum({"negative", "neutral", "positive"}),
           recommendation |->
             ZEnum({"not-recommended", "consider", "recommended",
                    "highly-recommended"})])

CostImpactItemSchema ==
  ZObject([category |-> ZString,
           description |-> ZString,
           amount |-> ZNumber,
           type |-> ZEnum({"increase", "decrease", "neutral"}),
           certainty |-> LowMediumHigh])

CostImpactAnalysisSchema ==
  ZObject([total_impact |-> ZNumber,
           currency |-> ZString,
           impact_breakdown |-> ZArray(CostImpactItemSchema),
           confidence_level |-> LowMediumHigh,
           assumptions |-> ZArray(ZString)])

ScheduleImpactItemSchema ==
  ZObject([activity |-> ZString,
           impact_days |-> ZNumber,
           type |-> ZEnum({"delay", "acceleration", "neutral"}),
           certainty |-> LowMediumHigh,
           dependencies |-> ZArray(ZString)])

ScheduleImpactAnalysisSchema ==
  ZObject([total_impact_days |-> ZNumber,
           impact_breakdown |-> ZArray(ScheduleImpactItemSchema),
           critical_path_affected |-> ZBoolean,
           confidence_level |-> LowMediumHigh,
           assumptions |-> ZArray(ZString)])

ModelUsedValues ==
  {"anthropic/claude-3.5-sonnet:beta", "openai/gpt-4o", "openai/gpt-4o-mini",
   "anthropic/claude-3-haiku:beta"}

AnalysisMetadataSchema ==
  ZObject([analysisId |-> ZString,
           timestamp |-> ZString,
           modelUsed |-> ZEnum(ModelUsedValues),
           analysisType |-> ZEnum({"compliance", "review", "comparison"}),
           complexity |-> ZEnum({"basic", "standard", "comprehensive", "detailed"}),
           processingTime |-> ZNumber,
           confidenceScore |-> ZRange(0, 1),
           completenessScore |-> ZRange(0, 1),
           reviewerNotes |-> ZOptional(ZNullable(ZString))])

DocumentAnalysisResultSchema ==
  ZObject([complianceScore |-> ZRange(0, 100),
           overallAssessment |-> OverallAssessmentSchema,
           summary |-> ZString,
           findings |-> ZArray(FindingSchema),
           recommendations |-> ZArray(RecommendationSchema),
           categories |-> ZArray(CategoryAnalysisSchema),
           confidence |-> ZRange(0, 1)])

EnhancedDocumentAnalysisResultSchema ==
  ZExtend(DocumentAnalysisResultSchema,
    [analysisMetadata |-> AnalysisMetadataSchema,
     detailedFindings |-> ZArray(DetailedFindingSchema),
     complianceMatrix |-> ComplianceMatrixSchema,
     riskAssessment |-> RiskAssessmentSchema,
     qualityMetrics |-> QualityMetricsSchema,
     actionItems |-> ZArray(ActionItemSchema),
     alternativeOptions |-> ZOptional(ZArray(AlternativeOptionSchema)),
     costImpactAnalysis |-> ZOptional(CostImpactAnalysisSchema),
     scheduleImpactAnalysis |-> ZOptional(ScheduleImpactAnalysisSchema)])

\* ------------------------------------------------------------------------
\* SchemaValidator: validation with a sanitizing fallback
\* ------------------------------------------------------------------------
Returns(v) == [kind |-> "returned", value |-> v]
Raises == [kind |-> "raised"]

validateEnhancedDocumentAnalysisResult(data) ==
  LET parsed == Parse(EnhancedDocumentAnalysisResultSchema, data)
  IN  IF parsed.ok THEN Returns(parsed.value) ELSE Raises

NaN == [nan |-> TRUE]
Finite(r) == [nan |-> FALSE, v |-> r]

\* The numeric strings among the model's inputs; every other non-blank
\* string converts to NaN
NumericStrings == [s \in {"85"} |-> RatOfInt(85)]

\* Number(value).  The arrays among the model's inputs are empty or hold
\* objects.
ToNumber(value) ==
  CASE value.t = "number" -> Finite(value.v)
    [] value.t = "undefined" -> NaN
    [] value.t = "null" -> Finite(RatOfInt(0))
    [] value.t = "boolean" -> Finite(RatOfInt(IF value.v THEN 1 ELSE 0))
    [] value.t = "string" ->
         IF value.v = "" THEN Finite(RatOfInt(0))
         ELSE IF value.v \in DOMAIN NumericStrings
              THEN Finite(NumericStrings[value.v])
              ELSE NaN
    [] value.t = "array" ->
         IF Len(value.v) = 0 THEN Finite(RatOfInt(0)) ELSE NaN
    [] value.t = "object" -> NaN

sanitizeNumber(value, min, max) ==
  LET num == ToNumber(value)
  IN  IF num.nan THEN Null
      ELSE IF min.has /\ RatLt(num.v, min.v) THEN Num(min.v)
      ELSE IF max.has /\ RatLt(max.v, num.v) THEN Num(max.v)
      ELSE Num(num.v)

sanitizeString(value) == IF value.t = "string" THEN value ELSE Null

sanitizeEnum(value, validValues) ==
  IF value.t = "string" /\ value.v \in validValues THEN value ELSE Null

\* Array.isArray(x) ? x : []
ArrayOrEmpty(x) == IF IsArray(x) THEN x ELSE Arr(<<>>)

\* `${prefix}${Date.now()}` and new Date().toISOString(), at the time `now`
Stamped(prefix, now) == Str(prefix \o ToString(now))

ComplexityValues == {"basic", "standard", "comprehensive", "detailed"}

sanitizeAnalysisMetadata(data, now) ==
  Obj([analysisId |->
         Coalesce(sanitizeString(Get(data, "analysisId")), Stamped("analysis-", now)),
       timestamp |->
         Coalesce(sanitizeString(Get(data, "timestamp")), Stamped("time-", now)),
       modelUsed |-> Coalesce(sanitizeString(Get(data, "modelUsed")), Str("unknown")),
       analysisType |->
         Coalesce(sanitizeString(Get(data, "analysisType")), Str("review")),
       complexity |->
         Coalesce(sanitizeEnum(Get(data, "complexity"), ComplexityValues),
                  Str("standard")),
       processingTime |->
         Coalesce(sanitizeNumber(Get(data, "processingTime"), NoBound, NoBound), N(0)),
       confidenceScore |->
         Coalesce(sanitizeNumber(Get(data, "confidenceScore"), Bound(0), Bound(1)),
                  Num(Rat(1, 2))),
       completenessScore |->
         Coalesce(sanitizeNumber(Get(data, "completenessScore"), Bound(0), Bound(1)),
                  Num(Rat(1, 2))),
       reviewerNotes |-> OrElse(sanitizeString(Get(data, "reviewerNotes")), Null)])

sanitizeComplianceMatrix(data) ==
  Obj([overall_score |->
         Coalesce(sanitizeNumber(Get(data, "overall_score"), Bound(0), Bound(100)), N(0)),
       categories |-> ArrayOrEmpty(Get(data, "categories")),
       summary |->
         Coalesce(sanitizeString(Get(data, "summary")), Str("Analysis completed")),
       critical_issues |->
         Coalesce(sanitizeNumber(Get(data, "critical_issues"), NoBound, NoBound), N(0)),
       major_issues |->
         Coalesce(sanitizeNumber(Get(data, "major_issues"), NoBound, NoBound), N(0)),
       minor_issues |->
         Coalesce(sanitizeNumber(Get(data, "minor_issues"), NoBound, NoBound), N(0)),
       compliant_items |->
         Coalesce(sanitizeNumber(Get(data, "compliant_items"), NoBound, NoBound), N(0))])

RiskLevelValues == {"low", "medium", "high", "critical"}

sanitizeRiskAssessment(data) ==
  Obj([overall_risk |->
         Coalesce(sanitizeEnum(Get(data, "overall_risk"), RiskLevelValues), Str("medium")),
       risk_factors |-> ArrayOrEmpty(Get(data, "risk_factors")),
       mitigation_strategies |-> ArrayOrEmpty(Get(data, "mitigation_strategies")),
       residual_risk |->
         Coalesce(sanitizeEnum(Get(data, "residual_risk"), RiskLevelValues),
                  Str("medium"))])

\* sanitizeNumber(x, 0, 100) ?? 70
QualityOrDefault(x) == Coalesce(sanitizeNumber(x, Bound(0), Bound(100)), N(70))

sanitizeQualityMetrics(data) ==
  Obj([documentation_quality |-> QualityOrDefault(Get(data, "documentation_quality")),
       technical_accuracy |-> QualityOrDefault(Get(data, "technical_accuracy")),
       completeness |-> QualityOrDefault(Get(data, "completeness")),
       clarity |-> QualityOrDefault(Get(data, "clarity")),
       consistency |-> QualityOrDefault(Get(data, "consistency")),
       compliance_readiness |-> QualityOrDefault(Get(data, "compliance_readiness")),
       overall_quality |-> QualityOrDefault(Get(data, "overall_quality")),
       improvement_areas |-> ArrayOrEmpty(Get(data, "improvement_areas"))])

DefaultModelUsed == Str("fallback")

getDefaultAnalysisResult(now) ==
  Obj([complianceScore |-> N(0),
       overallAssessment |-> Str("requires-review"),
       summary |-> Str("Analysis failed - default result provided"),
       findings |-> Arr(<<>>),
       recommendations |-> Arr(<<>>),
       categories |-> Arr(<<>>),
       confidence |-> N(0),
       analysisMetadata |->
         Obj([analysisId |-> Stamped("fallback-", now),
              timestamp |-> Stamped("time-", now),
              modelUsed |-> DefaultModelUsed,
              analysisType |-> Str("review"),
              complexity |-> Str("basic"),
              processingTime |-> N(0),
              confidenceScore |-> N(0),
              completenessScore |-> N(0)]),
       detailedFindings |-> Arr(<<>>),
       complianceMatrix |->
         Obj([overall_score |-> N(0),
              categories |-> Arr(<<>>),
              summary |-> Str("Default compliance matrix"),
              critical_issues |-> N(0),
              major_issues |-> N(0),
              minor_issues |-> N(0),
              compliant_items |-> N(0)]),
       riskAssessment |->
         Obj([overall_risk |-> Str("high"),
              risk_factors |-> Arr(<<>>),
              mitigation_strategies |-> Arr(<<>>),
              residual_risk |-> Str("high")]),
       qualityMetrics |->
         Obj([documentation_quality |-> N(0),
              technical_accuracy |-> N(0),
              completeness |-> N(0),
              clarity |-> N(0),
              consistency |-> N(0),
              compliance_readiness |-> N(0),
              overall_quality |-> N(0),
              improvement_areas |-> Arr(<<Str("Analysis failed")>>)]),
       actionItems |-> Arr(<<>>)])

sanitizeAnalysisData(data, now) ==
  IF Falsy(data) \/ data.t \notin {"object", "array"}
  THEN getDefaultAnalysisResult(now)
  ELSE
    Obj([complianceScore |->
           Coalesce(sanitizeNumber(Get(data, "complianceScore"), Bound(0), Bound(100)),
                    N(0)),
         overallAssessment |->
           Coalesce(sanitizeEnum(Get(data, "overallAssessment"), OverallAssessmentValues),
                    Str("requires-review")),
         summary |->
           Coalesce(sanitizeString(Get(data, "summary")), Str("Analysis completed")),
         findings |-> ArrayOrEmpty(Get(data, "findings")),
         recommendations |-> ArrayOrEmpty(Get(data, "recommendations")),
         categories |-> ArrayOrEmpty(Get(data, "categories")),
         confidence |->
           Coalesce(sanitizeNumber(Get(data, "confidence"), Bound(0), Bound(1)),
                    Num(Rat(1, 2))),
         analysisMetadata |->
           sanitizeAnalysisMetadata(Get(data, "analysisMetadata"), now),
         detailedFindings |-> ArrayOrEmpty(Get(data, "detailedFindings")),
         complianceMatrix |-> sanitizeComplianceMatrix(Get(data, "complianceMatrix")),
         riskAssessment |-> sanitizeRiskAssessment(Get(data, "riskAssessment")),
         qualityMetrics |-> sanitizeQualityMetrics(Get(data, "qualityMetrics")),
         actionItems |-> ArrayOrEmpty(Get(data, "actionItems")),
         alternativeOptions |->
           IF IsArray(Get(data, "alternativeOptions"))
           THEN Get(data, "alternativeOptions") ELSE Undef,
         costImpactAnalysis |-> OrElse(Get(data, "costImpactAnalysis"), Undef),
         scheduleImpactAnalysis |-> OrElse(Get(data, "scheduleImpactAnalysis"), Undef)])

\* Sanitizing before the direct validation, whatever the input
sanitizeAndValidateAlwaysSanitizes(data, now) ==
  validateEnhancedDocumentAnalysisResult(sanitizeAnalysisData(data, now))

sanitizeAndValidateAnalysisResult(data, now) ==
  LET direct == validateEnhancedDocumentAnalysisResult(data)
  IN  IF direct.kind = "returned" THEN direct
      ELSE validateEnhancedDocumentAnalysisResult(sanitizeAnalysisData(data, now))

\* ------------------------------------------------------------------------
\* The engine's result as the JavaScript value the schema validator sees.
\* A template string is a string whatever it interpolates; a date is the ISO
\* string of its day; a category kept as characters is the string they spell.
\* ------------------------------------------------------------------------
Text(parts) == Str("<text>")
DateString(day) == Str("day-" \o ToString(day))
Strings(seq) == Arr([k \in 1..Len(seq) |-> Text(seq[k])])

StringOfCategoryChars(chars) ==
  IF \E c \in FindingCategoryValues : CategoryChars(c) = chars
  THEN Str(CHOOSE c \in FindingCategoryValues : CategoryChars(c) = chars)
  ELSE Text(chars)

EncodeLocation(l) ==
  Obj([section |-> Text(l.section), excerpt |-> Text(l.excerpt)])

EncodeFinding(f) ==
  Obj([id |-> Text(f.id),
       category |-> Str(f.category),
       severity |-> Str(f.severity),
       title |-> Text(f.title),
       description |-> Text(f.description),
       location |-> EncodeLocation(f.location),
       compliance |-> Str(f.compliance),
       requiredAction |-> Text(f.requiredAction),
       deadline |-> Str(f.deadline),
       confidence |-> Num(f.confidence)])

EncodeDetailedFinding(f) ==
  Obj([id |-> Text(f.id),
       category |-> Str(f.category),
       severity |-> Str(f.severity),
       title |-> Text(f.title),
       description |-> Text(f.description),
       location |-> EncodeLocation(f.location),
       compliance |-> Str(f.compliance),
       confidence |-> Num(f.confidence),
       requiredAction |-> Text(f.requiredAction),
       deadline |->
         IF "deadline" \in DOMAIN f THEN DateString(f.deadline) ELSE Undef,
       section |-> Text(f.section),
       context |-> Text(f.context),
       impact |-> Str(f.impact),
       urgency |-> Str(f.urgency),
       effort |-> Str(f.effort),
       riskLevel |-> Str(f.riskLevel),
       complianceStatus |-> Str(f.complianceStatus),
       corrective_action |-> Text(f.corrective_action),
       timeline |-> Str(f.timeline),
       responsible_party |-> Str(f.responsible_party),
       verification_method |-> Str(f.verification_method),
       relatedFindings |-> Strings(f.relatedFindings),
       attachments |-> Strings(f.attachments)])

EncodeRecommendation(r) ==
  Obj([id |-> Str(r.id),
       priority |-> Str(r.priority),
       title |-> Str(r.title),
       description |-> Str(r.description),
       actionItems |-> Strings(r.actionItems),
       estimatedEffort |-> Str(r.estimatedEffort),
       category |-> Str(r.category)])

EncodeCategoryAnalysis(c) ==
  Obj([category |-> StringOfCategoryChars(c.category),
       score |-> N(c.score),
       status |-> Str(c.status),
       findingCount |-> N(c.findingCount),
       summary |-> Text(c.summary)])

EncodeComplianceCategory(c) ==
  Obj([name |-> Text(c.name),
       score |-> N(c.score),
       weight |-> Num(Rat(c.weight, 10)),
       status |-> Str(c.status),
       items_checked |-> N(c.items_checked),
       items_passed |-> N(c.items_passed),
       critical_failures |-> Strings(c.critical_failures),
       recommendations |-> Strings(c.recommendations)])

EncodeComplianceMatrix(m) ==
  Obj([overall_score |-> N(m.overall_score),
       categories |->
         Arr([k \in 1..Len(m.categories) |-> EncodeComplianceCategory(m.categories[k])]),
       summary |-> Text(m.summary),
       critical_issues |-> N(m.critical_issues),
       major_issues |-> N(m.major_issues),
       minor_issues |-> N(m.minor_issues),
       compliant_items |-> N(m.compliant_items)])

EncodeRiskFactor(f) ==
  Obj([category |-> Str(f.category),
       description |-> Text(f.description),
       probability |-> Str(f.probability),
       impact |-> Str(f.impact),
       risk_score |-> N(f.risk_score),
       mitigation_required |-> Bool(f.mitigation_required)])

EncodeMitigationStrategy(m) ==
  Obj([risk_id |-> Str(m.risk_id),
       strategy |-> Str(m.strategy),
       implementation_effort |-> Str(m.implementation_effort),
       effectiveness |-> Str(m.effectiveness),
       timeline |-> Str(m.timeline),
       responsible_party |-> Str(m.responsible_party)])

EncodeRiskAssessment(r) ==
  Obj([overall_risk |-> Str(r.overall_risk),
       risk_factors |->
         Arr([k \in 1..Len(r.risk_factors) |-> EncodeRiskFactor(r.risk_factors[k])]),
       mitigation_strategies |->
         Arr([k \in 1..Len(r.mitigation_strategies) |->
                EncodeMitigationStrategy(r.mitigation_strategies[k])]),
       residual_risk |-> Str(r.residual_risk)])

EncodeQualityMetrics(q) ==
  Obj([documentation_quality |-> N(q.documentation_quality),
       technical_accuracy |-> N(q.technical_accuracy),
       completeness |-> N(q.completeness),
       clarity |-> N(q.clarity),
       consistency |-> N(q.consistency),
       compliance_readiness |-> N(q.compliance_readiness),
       overall_quality |-> N(q.overall_quality),
       improvement_areas |-> Strings(q.improvement_areas)])

EncodeActionItem(a) ==
  Obj([id |-> Text(a.id),
       title |-> Str(a.title),
       description |-> Text(a.description),
       priority |-> Str(a.priority),
       category |-> Str(a.category),
       assigned_to |-> Str(a.assigned_to),
       due_date |-> DateString(a.due_date),
       estimated_hours |-> N(a.estimated_hours),
       dependencies |-> Strings(a.dependencies),
       status |-> Str(a.status),
       related_findings |-> Strings(a.related_findings)])

EncodeAnalysisMetadata(m) ==
  Obj([analysisId |-> Str(m.analysisId),
       timestamp |-> DateString(m.timestamp),
       modelUsed |-> Str(m.modelUsed),
       analysisType |-> Str(m.analysisType),
       complexity |-> Str(m.complexity),
       processingTime |-> N(m.processingTime),
       confidenceScore |-> Num(m.confidenceScore),
       completenessScore |-> Num(m.completenessScore),
       reviewerNotes |->
         IF "reviewerNotes" \in DOMAIN m THEN Text(m.reviewerNotes) ELSE Undef])

EncodeResult(r) ==
  Obj([complianceScore |-> N(r.complianceScore),
       overallAssessment |-> Str(r.overallAssessment),
       summary |-> Text(r.summary),
       findings |-> Arr([k \in 1..Len(r.findings) |-> EncodeFinding(r.findings[k])]),
       recommendations |->
         Arr([k \in 1..Len(r.recommendations) |->
                EncodeRecommendation(r.recommendations[k])]),
       categories |->
         Arr([k \in 1..Len(r.categories) |-> EncodeCategoryAnalysis(r.categories[k])]),
       confidence |-> Num(r.confidence),
       analysisMetadata |-> EncodeAnalysisMetadata(r.analysisMetadata),
       detailedFindings |->
         Arr([k \in 1..Len(r.detailedFindings) |->
                EncodeDetailedFinding(r.detailedFindings[k])]),
       complianceMatrix |-> EncodeComplianceMatrix(r.complianceMatrix),
       riskAssessment |-> EncodeRiskAssessment(r.riskAssessment),
       qualityMetrics |-> EncodeQualityMetrics(r.qualityMetrics),
       actionItems |->
         Arr([k \in 1..Len(r.actionItems) |-> EncodeActionItem(r.actionItems[k])])])

\* ------------------------------------------------------------------------
\* The engine as a state machine: the singleton, the clock, and the
\* invocations of analyzeSubmittalCompliance
\* ------------------------------------------------------------------------
VARIABLES
  config,     \* the singleton's AnalysisEngineConfig
  today,      \* the day the system clock reads
  running,    \* the invocation executing synchronously, 0 when none is
  args,       \* per invocation: the arguments of the call
  pc,         \* per invocation: the step it is at
  frame,      \* per invocation: the locals computed so far
  outcome,    \* per invocation: the promise the caller holds
  fault,      \* per invocation: the step that threw, "none" when none did
  matrixInput,   \* arguments handed to calculateComplianceMatrix on its own
  matrixOutput,  \* the matrix and the assessment it gives
  sanInput,      \* the value handed to sanitizeAndValidateAnalysisResult
  sanFirst,      \* what that call settles with
  sanSecond,     \* what a second call, on the first's result, settles with
  processingQueue,  \* the in-memory Map of processing jobs, by document id
  documents,        \* the rows of the documents table, by document id
  task,             \* per background task: the document and the await it is at
  retry             \* one call of retryWithBackoff: its loop and its promise

engineVars == <<config, today, running, args, pc, frame, outcome, fault>>
matrixVars == <<matrixInput, matrixOutput>>
sanVars == <<sanInput, sanFirst, sanSecond>>
jobVars == <<processingQueue, documents, task>>
vars == <<engineVars, matrixVars, sanVars, jobVars, retry>>

Idle == [kind |-> "idle"]

\* Document ids and background tasks of the processing route
DocumentIds == {"doc-1", "doc-2"}
MaxTasks == 2
Tasks == 1..MaxTasks

\* processingQueue.get(id) of an id the Map does not hold
NoJob == [status |-> "none"]
NoTask == [pc |-> "idle"]
NoRetry == [pc |-> "idle"]

\* An uploaded row of the documents table; extracted_text is whether the
\* row holds a non-empty text
UploadedRow ==
  [status |-> "uploaded", extracted_text |-> FALSE, file_type |-> "application/pdf"]

\* No document has been posted and retryWithBackoff has not been called
ServicesIdle ==
  /\ processingQueue = [id \in DocumentIds |-> NoJob]
  /\ documents = [id \in DocumentIds |-> UploadedRow]
  /\ task = [t \in Tasks |-> NoTask]
  /\ retry = NoRetry

Invocations == {1, 2}

Steps == <<"extract", "compare", "matrix", "findings", "risks", "quality",
           "actions", "assemble">>

NoFrame == <<>>
Pending == [kind |-> "pending"]
Resolved(v) == [kind |-> "resolved", value |-> v]
Rejected(e) == [kind |-> "rejected", error |-> e]

\* new AnalysisEngine(): every option at its default
DefaultPassScore == 80
DefaultMaxCriticalIssues == 5
DefaultConfig ==
  [strictMode |-> TRUE,
   confidenceThreshold |-> Rat(7, 10),
   maxCriticalIssues |-> DefaultMaxCriticalIssues,
   compliancePassScore |-> DefaultPassScore]

NoArgs == [submittalText |-> <<>>, specificationText |-> <<>>,
           fileName |-> "", analysisId |-> ""]

CallArgs(sub, spec) ==
  [submittalText |-> sub, specificationText |-> spec,
   fileName |-> "submittal.pdf", analysisId |-> "analysis-1"]

\* The state in which invocation 1 has been called with the given texts
\* and invocation 2 has not been called
InitWith(subTexts, specTexts) ==
  /\ ServicesIdle
  /\ config = DefaultConfig
  /\ today = 0
  /\ running = 1
  /\ \E sub \in subTexts, spec \in specTexts :
       args = (1 :> CallArgs(sub, spec)) @@ (2 :> NoArgs)
  /\ pc = (1 :> "extract") @@ (2 :> "idle")
  /\ frame = (1 :> NoFrame) @@ (2 :> NoFrame)
  /\ outcome = (1 :> Pending) @@ (2 :> Pending)
  /\ fault = (1 :> "none") @@ (2 :> "none")
  /\ matrixInput = Idle /\ matrixOutput = Idle
  /\ sanInput = Idle /\ sanFirst = Idle /\ sanSecond = Idle

Init == InitWith(Texts(SubLines, MaxSubLines), Texts(SpecLines, MaxSpecLines))

\* One statement of the try block has completed: its local is bound
Advance(i, next, locals) ==
  /\ pc' = [pc EXCEPT ![i] = next]
  /\ frame' = [frame EXCEPT ![i] = locals @@ @]
  /\ UNCHANGED <<config, today, running, args, outcome, fault, matrixVars, sanVars, jobVars, retry>>

\* Step 1 of an engine that keeps the extracted sections in a field of the
\* instance: every invocation in progress then reads the sections of the
\* latest call
ExtractSharesSections(i) ==
  /\ running = i /\ pc[i] = "extract"
  /\ pc' = [pc EXCEPT ![i] = "compare"]
  /\ frame' = [j \in Invocations |->
       [submittalSections |-> extractSections(args[i].submittalText),
        specificationSections |-> extractSections(args[i].specificationText)]
       @@ frame[j]]
  /\ UNCHANGED <<config, today, running, args, outcome, fault, matrixVars, sanVars, jobVars, retry>>

\* Step 1
Extract(i) ==
  /\ running = i /\ pc[i] = "extract"
  /\ Advance(i, "compare",
       [submittalSections |-> extractSections(args[i].submittalText),
        specificationSections |-> extractSections(args[i].specificationText)])

\* Step 2: performComparison runs to its end, then the caller suspends at
\* the await
Compare(i) ==
  /\ running = i /\ pc[i] = "compare"
  /\ pc' = [pc EXCEPT ![i] = "await"]
  /\ frame' = [frame EXCEPT ![i] =
       [comparisonResult |->
          performComparison(frame[i].submittalSections,
                            frame[i].specificationSections)] @@ @]
  /\ running' = 0
  /\ UNCHANGED <<config, today, args, outcome, fault, matrixVars, sanVars, jobVars, retry>>

\* The continuation of the await is scheduled
Resume(i) ==
  /\ running = 0 /\ pc[i] = "await"
  /\ running' = i
  /\ pc' = [pc EXCEPT ![i] = "matrix"]
  /\ UNCHANGED <<config, today, args, frame, outcome, fault, matrixVars, sanVars, jobVars, retry>>

\* Step 3
Matrix(i) ==
  /\ running = i /\ pc[i] = "matrix"
  /\ Advance(i, "findings",
       [complianceMatrix |->
          calculateComplianceMatrix(frame[i].comparisonResult,
            frame[i].submittalSections, frame[i].specificationSections, config)])

\* Step 4
Findings(i) ==
  /\ running = i /\ pc[i] = "findings"
  /\ Advance(i, "risks",
       [detailedFindings |->
          generateDetailedFindings(frame[i].comparisonResult,
            frame[i].submittalSections, frame[i].specificationSections, today)])

\* Step 5
Risks(i) ==
  /\ running = i /\ pc[i] = "risks"
  /\ Advance(i, "quality",
       [riskAssessment |->
          assessRisks(frame[i].detailedFindings, frame[i].comparisonResult)])

\* Step 6
Quality(i) ==
  /\ running = i /\ pc[i] = "quality"
  /\ Advance(i, "actions",
       [qualityMetrics |->
          calculateQualityMetrics(args[i].submittalText,
            args[i].specificationText, frame[i].detailedFindings)])

\* Step 7
Actions(i) ==
  /\ running = i /\ pc[i] = "actions"
  /\ Advance(i, "assemble",
       [actionItems |->
          generateActionItems(frame[i].detailedFindings,
                              frame[i].riskAssessment, today)])

\* What the call settles with: the assembled result on the normal path
ReturnOutcome(fr, analysisId, day) == Resolved(AssembleResult(fr, analysisId, day))

\* Steps 8 to 10 and the return: the locals are gone, the promise resolves
Assemble(i) ==
  /\ running = i /\ pc[i] = "assemble"
  /\ outcome' = [outcome EXCEPT ![i] =
       ReturnOutcome(frame[i], args[i].analysisId, today)]
  /\ pc' = [pc EXCEPT ![i] = "returned"]
  /\ frame' = [frame EXCEPT ![i] = NoFrame]
  /\ running' = 0
  /\ UNCHANGED <<config, today, args, fault, matrixVars, sanVars, jobVars, retry>>

\* A catch block that logs the error and throws it again
CatchOutcomeRethrows(fr, analysisId, error, day) == Rejected(error)

\* What the catch block settles the call with
CatchOutcome(fr, analysisId, error, day) ==
  Resolved(generateErrorResponse(analysisId, error, day))

\* The statement of the step the invocation is at throws: control passes to
\* the catch block, which returns
Throw(i) ==
  /\ running = i
  /\ \E k \in 1..Len(Steps) : pc[i] = Steps[k]
  /\ fault' = [fault EXCEPT ![i] = pc[i]]
  /\ outcome' = [outcome EXCEPT ![i] =
       CatchOutcome(frame[i], args[i].analysisId, pc[i], today)]
  /\ pc' = [pc EXCEPT ![i] = "returned"]
  /\ frame' = [frame EXCEPT ![i] = NoFrame]
  /\ running' = 0
  /\ UNCHANGED <<config, today, args, matrixVars, sanVars, jobVars, retry>>

Next ==
  \E i \in Invocations :
    \/ Extract(i)
    \/ Compare(i)
    \/ Resume(i)
    \/ Matrix(i)
    \/ Findings(i)
    \/ Risks(i)
    \/ Quality(i)
    \/ Actions(i)
    \/ Assemble(i)
    \/ Throw(i)

Spec == Init /\ [][Next]_vars

\* ------------------------------------------------------------------------
\* sanitizeAndValidateAnalysisResult on its own: a caller hands it a value,
\* and hands the result it gets back to a second call.
\* ------------------------------------------------------------------------
MaxDefects == 2

ValidFinding ==
  Obj([id |-> Str("finding-1"),
       category |-> Str("documentation"),
       severity |-> Str("minor"),
       title |-> Str("title"),
       description |-> Str("description"),
       location |-> Obj([excerpt |-> Str("excerpt")]),
       compliance |-> Str("non-compliant"),
       confidence |-> Num(Rat(9, 10))])

ValidDetailedFinding ==
  Obj([section |-> Str("section"),
       context |-> Str("context"),
       impact |-> Str("medium"),
       urgency |-> Str("medium"),
       effort |-> Str("moderate"),
       riskLevel |-> Str("medium"),
       complianceStatus |-> Str("non-compliant"),
       corrective_action |-> Str("action"),
       timeline |-> Str("2-4 weeks"),
       responsible_party |-> Str("Submittal Preparer"),
       verification_method |-> Str("Document Review"),
       relatedFindings |-> Arr(<<>>),
       attachments |-> Arr(<<>>)] @@ ValidFinding.v)

ValidActionItem ==
  Obj([id |-> Str("action-1"),
       title |-> Str("title"),
       description |-> Str("description"),
       priority |-> Str("medium"),
       category |-> Str("quality-control"),
       assigned_to |-> Str("Quality Reviewer"),
       dependencies |-> Arr(<<>>),
       status |-> Str("pending"),
       related_findings |-> Arr(<<Str("finding-1")>>)])

\* A result every field of which the schema accepts
ValidResult ==
  Obj([complianceScore |-> N(85),
       overallAssessment |-> Str("partially-compliant"),
       summary |-> Str("summary"),
       findings |-> Arr(<<ValidFinding>>),
       recommendations |-> Arr(<<>>),
       categories |-> Arr(<<>>),
       confidence |-> Num(Rat(4, 5)),
       analysisMetadata |->
         Obj([analysisId |-> Str("analysis-1"),
              timestamp |-> Str("time-0"),
              modelUsed |-> Str("openai/gpt-4o"),
              analysisType |-> Str("comparison"),
              complexity |-> Str("comprehensive"),
              processingTime |-> N(12),
              confidenceScore |-> Num(Rat(4, 5)),
              completenessScore |-> N(1),
              reviewerNotes |-> Str("checked")]),
       detailedFindings |-> Arr(<<ValidDetailedFinding>>),
       complianceMatrix |->
         Obj([overall_score |-> N(85),
              categories |-> Arr(<<>>),
              summary |-> Str("summary"),
              critical_issues |-> N(0),
              major_issues |-> N(0),
              minor_issues |-> N(1),
              compliant_items |-> N(1)]),
       riskAssessment |->
         Obj([overall_risk |-> Str("low"),
              risk_factors |-> Arr(<<>>),
              mitigation_strategies |-> Arr(<<>>),
              residual_risk |-> Str("medium")]),
       qualityMetrics |->
         Obj([documentation_quality |-> N(100),
              technical_accuracy |-> N(100),
              completeness |-> N(100),
              clarity |-> N(95),
              consistency |-> N(90),
              compliance_readiness |-> N(100),
              overall_quality |-> N(98),
              improvement_areas |-> Arr(<<>>)]),
       actionItems |-> Arr(<<ValidActionItem>>)])

\* value with the entry at path replaced by `to`; replaced by undefined, the
\* key is deleted
RECURSIVE SetAt(_, _, _)
SetAt(value, path, to) ==
  IF Len(path) = 0 THEN to
  ELSE IF value.t = "array"
       THEN Arr([value.v EXCEPT ![Head(path)] = SetAt(@, Tail(path), to)])
       ELSE Obj((Head(path) :> SetAt(Get(value, Head(path)), Tail(path), to))
                @@ (IF value.t = "object" THEN value.v ELSE EmptyObject))

Change(path, to, class) == [path |-> path, to |-> to, class |-> class]

\* Ways an input departs from ValidResult.  "scalar": a scalar field with a
\* per-field default is missing or invalid (a missing analysisMetadata or
\* qualityMetrics leaves all of its scalars missing); "collection": an array
\* field is missing or not an array; "passthrough": the defect is in data
\* sanitization copies as it is; "variation": no defect, the input is valid.
Changes ==
  << Change(<<"complianceScore">>, Undef, "scalar"),
     Change(<<"complianceScore">>, N(150), "scalar"),
     Change(<<"complianceScore">>, Str("85"), "scalar"),
     Change(<<"overallAssessment">>, Str("bogus"), "scalar"),
     Change(<<"summary">>, Undef, "scalar"),
     Change(<<"confidence">>, N(-1), "scalar"),
     Change(<<"analysisMetadata">>, Undef, "scalar"),
     Change(<<"analysisMetadata", "modelUsed">>, Undef, "scalar"),
     Change(<<"analysisMetadata", "modelUsed">>, Str("gpt-5"), "scalar"),
     Change(<<"analysisMetadata", "analysisType">>, Str("audit"), "scalar"),
     Change(<<"analysisMetadata", "complexity">>, Str("bogus"), "scalar"),
     Change(<<"analysisMetadata", "completenessScore">>, N(100), "scalar"),
     Change(<<"complianceMatrix", "critical_issues">>, N(-1), "scalar"),
     Change(<<"riskAssessment", "overall_risk">>, Str("extreme"), "scalar"),
     Change(<<"qualityMetrics", "clarity">>, Str("abc"), "scalar"),
     Change(<<"qualityMetrics">>, Undef, "scalar"),
     Change(<<"findings">>, Undef, "collection"),
     Change(<<"actionItems">>, Str("none"), "collection"),
     Change(<<"findings", 1, "severity">>, Str("bogus"), "passthrough"),
     Change(<<"detailedFindings", 1, "confidence">>, N(2), "passthrough"),
     Change(<<"complianceMatrix", "categories">>,
            Arr(<<Obj([name |-> Str("Documentation")])>>), "passthrough"),
     Change(<<"costImpactAnalysis">>, Str("n/a"), "passthrough"),
     Change(<<"detailedFindings", 1, "relatedFindings">>, Undef, "variation"),
     Change(<<"actionItems", 1, "dependencies">>, Undef, "variation"),
     Change(<<"notes">>, Str("extra"), "variation"),
     Change(<<"analysisMetadata", "reviewerNotes">>, Str(""), "variation"),
     Change(<<"analysisMetadata", "reviewerNotes">>, Null, "variation") >>

\* The changes numbered in the sequence `chosen`, applied in that order
RECURSIVE ApplyAll(_, _)
ApplyAll(value, chosen) ==
  IF Len(chosen) = 0 THEN value
  ELSE LET rest == ApplyAll(value, SubSeq(chosen, 1, Len(chosen) - 1))
           last == Changes[chosen[Len(chosen)]]
       IN  SetAt(rest, last.path, last.to)

\* Up to MaxDefects changes, in the order they are listed
ChosenChanges ==
  UNION {{c \in [1..m -> 1..Len(Changes)] :
            \A i \in 1..m, j \in 1..m : i < j => c[i] < c[j]} : m \in 0..MaxDefects}

\* Values that are not objects, and an array
NonObjects == {Undef, Null, Str("oops"), N(5), Bool(FALSE), Arr(<<>>)}

SanInputs ==
  {[value |-> v, changes |-> {}, object |-> FALSE] : v \in NonObjects}
  \cup {[value |-> ApplyAll(ValidResult, chosen),
         changes |-> Range(chosen), object |-> TRUE] : chosen \in ChosenChanges}

\* The engine is not in use
EngineIdle ==
  /\ config = DefaultConfig
  /\ running = 0
  /\ args = [i \in Invocations |-> NoArgs]
  /\ pc = [i \in Invocations |-> "idle"]
  /\ frame = [i \in Invocations |-> NoFrame]
  /\ outcome = [i \in Invocations |-> Pending]
  /\ fault = [i \in Invocations |-> "none"]

InitSanitize ==
  /\ ServicesIdle
  /\ EngineIdle
  /\ today = 0
  /\ matrixInput = Idle /\ matrixOutput = Idle
  /\ sanInput \in SanInputs
  /\ sanFirst = Idle /\ sanSecond = Idle

\* The clock passes midnight
Tick ==
  /\ today < MaxDays
  /\ today' = today + 1
  /\ UNCHANGED <<config, running, args, pc, frame, outcome, fault,
                 matrixVars, sanVars, jobVars, retry>>

\* The caller's first call
SanitizeFirst ==
  /\ sanFirst.kind = "idle"
  /\ sanFirst' = sanitizeAndValidateAnalysisResult(sanInput.value, today)
  /\ UNCHANGED <<engineVars, matrixVars, sanInput, sanSecond, jobVars, retry>>

\* The caller hands the result of the first call to a second one
SanitizeSecond ==
  /\ sanFirst.kind = "returned" /\ sanSecond.kind = "idle"
  /\ sanSecond' = sanitizeAndValidateAnalysisResult(sanFirst.value, today)
  /\ UNCHANGED <<engineVars, matrixVars, sanInput, sanFirst, jobVars, retry>>

NextSanitize == SanitizeFirst \/ SanitizeSecond \/ Tick

SpecSanitize == InitSanitize /\ [][NextSanitize]_vars

\* ------------------------------------------------------------------------
\* calculateComplianceMatrix and determineOverallAssessment on their own,
\* over drawn arguments: specification sections of any category, each
\* matched in full, matched in part or not matched by the one submittal
\* section; and matrices of any score and issue count.
\* ------------------------------------------------------------------------
MaxMatrixSections == 2
MaxCriticalIssues == 1

\* The k-th drawn section's id: k letters s
DrawnId(k) == [j \in 1..k |-> "s"]

DrawnSection(k, category, content) ==
  [id |-> DrawnId(k),
   title |-> LineFireRating,
   content |-> content,
   startLine |-> k,
   endLine |-> k,
   level |-> 1,
   category |-> category]

\* Contents that overlap the submittal section's in full, by half, not at all
DrawnContents == {LineHas, LineShall, LinePlain}

MatrixSubmittalSections == extractSections(<<LineFireRating, LineHas>>)

\* The sections a choice of category and content per position gives
DrawnSections(pick) ==
  [k \in DOMAIN pick |-> DrawnSection(k, pick[k][1], pick[k][2])]

DrawnMatrices ==
  {[overall_score |-> score,
    categories |-> <<>>,
    summary |-> <<>>,
    critical_issues |-> critical,
    major_issues |-> 0,
    minor_issues |-> 0,
    compliant_items |-> 0] : score \in 0..100, critical \in 0..MaxCriticalIssues}

InitMatrix ==
  /\ ServicesIdle
  /\ EngineIdle
  /\ today = 0
  /\ sanInput = Idle /\ sanFirst = Idle /\ sanSecond = Idle
  /\ \/ \E n \in 1..MaxMatrixSections :
          \E pick \in [1..n -> FindingCategory \X DrawnContents] :
            matrixInput = [kind |-> "sections",
                           submittalSections |-> MatrixSubmittalSections,
                           specificationSections |-> DrawnSections(pick)]
     \/ \E matrix \in DrawnMatrices :
          matrixInput = [kind |-> "matrix", matrix |-> matrix]
  /\ matrixOutput = Idle

\* Steps 2 and 3 of the analysis, on the drawn sections
ComputeMatrix ==
  /\ matrixInput.kind = "sections" /\ matrixOutput.kind = "idle"
  /\ matrixOutput' =
       [kind |-> "matrix",
        matrix |->
          calculateComplianceMatrix(
            performComparison(matrixInput.submittalSections,
                              matrixInput.specificationSections),
            matrixInput.submittalSections,
            matrixInput.specificationSections, config)]
  /\ UNCHANGED <<engineVars, matrixInput, sanVars, jobVars, retry>>

\* determineOverallAssessment on the matrix computed, or on the matrix drawn
Assess ==
  /\ \/ matrixOutput.kind = "matrix"
     \/ matrixInput.kind = "matrix" /\ matrixOutput.kind = "idle"
  /\ LET matrix == IF matrixOutput.kind = "matrix" THEN matrixOutput.matrix
                   ELSE matrixInput.matrix
     IN  matrixOutput' =
           [kind |-> "assessed",
            matrix |-> matrix,
            overallAssessment |-> determineOverallAssessment(matrix)]
  /\ UNCHANGED <<engineVars, matrixInput, sanVars, jobVars, retry>>

NextMatrix == ComputeMatrix \/ Assess

SpecMatrix == InitMatrix /\ [][NextMatrix]_vars

\* ------------------------------------------------------------------------
\* calculateComplianceMatrix on its own, by an engine constructed with a
\* drawn compliancePassScore, over a drawn comparison: up to
\* MaxScoredSections specification sections, each of a drawn category and
\* either unmatched, or matched with score 0.7 or 1 and a difference of
\* drawn severity.
\* ------------------------------------------------------------------------
MaxScoredSections == 3

PassScores == {DefaultPassScore, 65}
ScoredCategories == {"safety-requirements", "documentation"}
ScoredMatches == {"none"} \cup ({Rat(7, 10), Rat(1, 1)} \X {"minor", "critical"})

ScoredSections(pick) ==
  [k \in DOMAIN pick |-> DrawnSection(k, pick[k][1], LineShall)]

\* The comparison in which section k is matched as pick[k][2] says
DrawnComparison(pick) ==
  LET matched == SelectSeq([k \in DOMAIN pick |-> k],
                           LAMBDA k : pick[k][2] # "none")
      unmatched == SelectSeq([k \in DOMAIN pick |-> k],
                             LAMBDA k : pick[k][2] = "none")
      similarities ==
        [j \in 1..Len(matched) |->
           [submittalSection |-> MatrixSubmittalSections[1].id,
            specificationSection |-> DrawnId(matched[j]),
            matchScore |-> pick[matched[j]][2][1],
            matchType |-> matchTypeOf(pick[matched[j]][2][1]),
            confidence |-> pick[matched[j]][2][1]]]
      differences ==
        [j \in 1..Len(matched) |->
           [Head(analyzeSectionDifferences(ScoredSections(pick)[matched[j]],
                                           MatrixSubmittalSections[1]))
              EXCEPT !.severity = pick[matched[j]][2][2]]]
  IN  [similarities |-> similarities,
       differences |-> differences,
       missingElements |->
         [j \in 1..Len(unmatched) |->
            [id |-> <<"missing-", DrawnId(unmatched[j])>>,
             specificationRequirement |-> LineFireRating,
             category |-> pick[unmatched[j]][1],
             criticality |-> "critical",
             suggestedAction |-> <<"Provide information for: ", LineFireRating>>]],
       excessElements |-> <<>>,
       confidenceScore |-> calculateComparisonConfidence(similarities, differences)]

InitScore ==
  /\ ServicesIdle
  /\ \E passScore \in PassScores :
       config = [DefaultConfig EXCEPT !.compliancePassScore = passScore]
  /\ today = 0
  /\ running = 0
  /\ args = [i \in Invocations |-> NoArgs]
  /\ pc = [i \in Invocations |-> "idle"]
  /\ frame = [i \in Invocations |-> NoFrame]
  /\ outcome = [i \in Invocations |-> Pending]
  /\ fault = [i \in Invocations |-> "none"]
  /\ sanInput = Idle /\ sanFirst = Idle /\ sanSecond = Idle
  /\ \E n \in 1..MaxScoredSections :
       \E pick \in [1..n -> ScoredCategories \X ScoredMatches] :
         matrixInput = [kind |-> "comparison",
                        comparison |-> DrawnComparison(pick),
                        submittalSections |-> MatrixSubmittalSections,
                        specificationSections |-> ScoredSections(pick)]
  /\ matrixOutput = Idle

\* Step 3 of the analysis, on the drawn comparison
ScoreDrawn ==
  /\ matrixInput.kind = "comparison" /\ matrixOutput.kind = "idle"
  /\ matrixOutput' =
       [kind |-> "matrix",
        matrix |->
          calculateComplianceMatrix(matrixInput.comparison,
            matrixInput.submittalSections,
            matrixInput.specificationSections, config)]
  /\ UNCHANGED <<engineVars, matrixInput, sanVars, jobVars, retry>>

NextScore == ScoreDrawn \/ Assess

SpecScore == InitScore /\ [][NextScore]_vars

\* ------------------------------------------------------------------------
\* findMatchingSections and performComparison on their own, over drawn
\* sections: up to MaxMatchSpecSections specification sections and up to
\* MaxMatchSubSections submittal sections, with bodies whose overlaps fall
\* on, between and beyond the thresholds 0.3, 0.6 and 0.8.
\* ------------------------------------------------------------------------
MaxMatchSpecSections == 2
MaxMatchSubSections == 2

BodyABC == <<"A", " ", "b", " ", "c">>
BodyABCD == <<"a", " ", "b", " ", "c", " ", "d">>
BodyABCShall == <<"a", " ", "b", " ", "c", " ", "s", "h", "a", "l", "l">>
BodyFive == <<"a", " ", "b", " ", "c", " ", "d", " ", "e">>
BodyTen == <<"a", " ", "b", " ", "c", " ", "d", " ", "e", " ", "f", " ", "g", " ", "h", " ", "i", " ", "j">>
BodyOther == <<"x", " ", "y">>

MatchSpecBodies == {BodyABC, BodyABCD, BodyABCShall}
MatchSubBodies == {<<"a", " ", " ", "b", " ", "C">>, BodyABCD, BodyFive, BodyTen, BodyOther}

BodiesToSections(bodies) ==
  [k \in DOMAIN bodies |-> DrawnSection(k, "documentation", bodies[k])]

InitMatch ==
  /\ ServicesIdle
  /\ EngineIdle
  /\ today = 0
  /\ sanInput = Idle /\ sanFirst = Idle /\ sanSecond = Idle
  /\ \E n \in 1..MaxMatchSpecSections, m \in 0..MaxMatchSubSections :
       \E spec \in [1..n -> MatchSpecBodies], sub \in [1..m -> MatchSubBodies] :
         matrixInput = [kind |-> "drawn",
                        submittalSections |-> BodiesToSections(sub),
                        specificationSections |-> BodiesToSections(spec)]
  /\ matrixOutput = Idle

\* findMatchingSections for each drawn specification section
MatchDrawn ==
  /\ matrixInput.kind = "drawn" /\ matrixOutput.kind = "idle"
  /\ matrixOutput' =
       [kind |-> "matched",
        matches |->
          [k \in 1..Len(matrixInput.specificationSections) |->
             findMatchingSections(matrixInput.specificationSections[k],
                                  matrixInput.submittalSections)]]
  /\ UNCHANGED <<engineVars, matrixInput, sanVars, jobVars, retry>>

\* Step 2 of the analysis, on the drawn sections
CompareDrawn ==
  /\ matrixInput.kind = "drawn" /\ matrixOutput.kind = "matched"
  /\ matrixOutput' =
       [kind |-> "compared",
        matches |-> matrixOutput.matches,
        comparison |->
          performComparison(matrixInput.submittalSections,
                            matrixInput.specificationSections)]
  /\ UNCHANGED <<engineVars, matrixInput, sanVars, jobVars, retry>>

NextMatch == MatchDrawn \/ CompareDrawn

SpecMatch == InitMatch /\ [][NextMatch]_vars

\* ------------------------------------------------------------------------
\* The engine called twice with the same arguments: the second call starts
\* whenever no call is executing, and the clock advances between steps.
\* ------------------------------------------------------------------------
MaxRepeatLines == 2

InitRepeat ==
  InitWith(Texts(SubLines, MaxRepeatLines), Texts(SpecLines, MaxRepeatLines))

\* A caller calls the singleton again with the arguments of the first call
CallAgain ==
  /\ running = 0 /\ pc[2] = "idle"
  /\ args' = [args EXCEPT ![2] = args[1]]
  /\ pc' = [pc EXCEPT ![2] = "extract"]
  /\ running' = 2
  /\ UNCHANGED <<config, today, frame, outcome, fault, matrixVars, sanVars, jobVars, retry>>

NextRepeat == Next \/ CallAgain \/ Tick

SpecRepeat == InitRepeat /\ [][NextRepeat]_vars

\* ------------------------------------------------------------------------
\* The singleton called by two callers with unrelated requests: the second
\* call starts whenever no call is executing (before the first has resumed
\* from its await, or after), the continuations run in either order, and
\* the clock advances between steps.
\* ------------------------------------------------------------------------
\* The documents of the two requests
ConcurrentSubTexts == {<<LineFireRating, LineHas>>, <<LineShall>>}
ConcurrentSpecTexts == {<<LineFireRating, LineShall>>, <<LineMaterials, LineShall>>}

OtherArgs(sub, spec) ==
  [submittalText |-> sub, specificationText |-> spec,
   fileName |-> "other.pdf", analysisId |-> "analysis-2"]

InitConcurrent == InitWith(ConcurrentSubTexts, ConcurrentSpecTexts)

\* Another caller calls the singleton with its own documents
CallOther ==
  /\ running = 0 /\ pc[2] = "idle"
  /\ \E sub \in ConcurrentSubTexts, spec \in ConcurrentSpecTexts :
       args' = [args EXCEPT ![2] = OtherArgs(sub, spec)]
  /\ pc' = [pc EXCEPT ![2] = "extract"]
  /\ running' = 2
  /\ UNCHANGED <<config, today, frame, outcome, fault, matrixVars, sanVars, jobVars, retry>>

NextConcurrent == Next \/ CallOther \/ Tick

SpecConcurrent == InitConcurrent /\ [][NextConcurrent]_vars

\* ------------------------------------------------------------------------
\* The engine called on a specification of five sections, each a numbered
\* header and one body line, and a submittal of up to MaxFiveSubSections
\* sections, each a numbered header with or without a body line.
\* ------------------------------------------------------------------------
MaxFiveSubSections == 3

FiveHeaders == <<LineFireRating, LineMaterials, LineTesting, LineSafety, LineCodes>>

\* The lines of n sections: the k-th header, then one of the bodies
RECURSIVE SectionLines(_, _)
SectionLines(n, bodies) ==
  IF n = 0 THEN {<<>>}
  ELSE {t \o <<FiveHeaders[n]>> \o b :
          t \in SectionLines(n - 1, bodies), b \in bodies}

FiveSpecTexts == SectionLines(5, {<<LineShall>>, <<LinePlain>>})

FiveSubTexts ==
  {<<LineEmpty>>}
  \cup UNION {SectionLines(n, {<<>>, <<LineHas>>, <<LinePlain>>}) :
               n \in 1..MaxFiveSubSections}

InitFive == InitWith(FiveSubTexts, FiveSpecTexts)

SpecFive == InitFive /\ [][Next]_vars

\* ------------------------------------------------------------------------
\* The engine called on specifications of up to MaxPrefixBlocks +
\* MaxRepeatedBlocks sections: a section is a header with a 'shall' line
\* (missing, it is critical) or a header alone (missing, it is major), and
\* the submittal has no section, a section that matches nothing, or a
\* section that matches every section without a body.
\* ------------------------------------------------------------------------
MaxPrefixBlocks == 1
MaxRepeatedBlocks == 6

CriticalBlock == <<LineSafety, LineShall>>
MajorDocumentationBlock == <<LineFireRating>>
MajorMaterialBlock == <<LineMaterials>>
Blocks == {CriticalBlock, MajorDocumentationBlock, MajorMaterialBlock}

RECURSIVE Repeated(_, _)
Repeated(block, r) == IF r = 0 THEN <<>> ELSE block \o Repeated(block, r - 1)

RECURSIVE FlattenBlocks(_)
FlattenBlocks(bs) == IF bs = <<>> THEN <<>> ELSE Head(bs) \o FlattenBlocks(Tail(bs))

\* ''.split('\n') is one empty line
LinesOrEmpty(lines) == IF lines = <<>> THEN <<LineEmpty>> ELSE lines

FindingsSpecTexts ==
  {LinesOrEmpty(FlattenBlocks(prefix) \o Repeated(block, r)) :
     prefix \in UNION {[1..n -> Blocks] : n \in 0..MaxPrefixBlocks},
     block \in Blocks, r \in 0..MaxRepeatedBlocks}

FindingsSubTexts ==
  {<<LineEmpty>>, <<LineFireRating, LinePlain>>, <<LineFireRating>>}

\* The call is made on any of the days
InitFindings ==
  /\ ServicesIdle
  /\ config = DefaultConfig
  /\ today \in 0..MaxDays
  /\ running = 1
  /\ \E sub \in FindingsSubTexts, spec \in FindingsSpecTexts :
       args = (1 :> CallArgs(sub, spec)) @@ (2 :> NoArgs)
  /\ pc = (1 :> "extract") @@ (2 :> "idle")
  /\ frame = (1 :> NoFrame) @@ (2 :> NoFrame)
  /\ outcome = (1 :> Pending) @@ (2 :> Pending)
  /\ fault = (1 :> "none") @@ (2 :> "none")
  /\ matrixInput = Idle /\ matrixOutput = Idle
  /\ sanInput = Idle /\ sanFirst = Idle /\ sanSecond = Idle

SpecFindings == InitFindings /\ [][Next]_vars

\* ------------------------------------------------------------------------
\* Properties of analyzeSubmittalCompliance
\* ------------------------------------------------------------------------
ResultFields ==
  {"complianceScore", "overallAssessment", "summary", "findings",
   "recommendations", "categories", "confidence", "analysisMetadata",
   "detailedFindings", "complianceMatrix", "riskAssessment", "qualityMetrics",
   "actionItems"}

Returned(i) == pc[i] = "returned"
ReturnedNormally(i) == Returned(i) /\ fault[i] = "none"
ReturnedDegraded(i) == Returned(i) /\ fault[i] # "none"

\* C1: whichever step of analyzeSubmittalCompliance throws, the call does
\* not reject: it resolves with the complete result generateErrorResponse
\* builds for that error, and until the call returns the caller holds a
\* pending promise, never a partly assembled result.
C1_FaultGivesDegradedResult ==
  \A i \in Invocations :
    /\ outcome[i].kind # "rejected"
    /\ ~Returned(i) => outcome[i] = Pending /\ fault[i] = "none"
    /\ Returned(i) =>
         /\ outcome[i].kind = "resolved"
         /\ DOMAIN outcome[i].value = ResultFields
    /\ ReturnedDegraded(i) =>
         outcome[i].value =
           generateErrorResponse(args[i].analysisId, fault[i],
             outcome[i].value.analysisMetadata.timestamp)

\* A step in the middle of the pipeline threw and the call has returned
C1_Witness ==
  \E i \in Invocations : Returned(i) /\ fault[i] = "quality"

\* C3: the result of every call has complianceScore in [0,100] and
\* confidence in [0,1].
C3_ScoreAndConfidenceInRange ==
  \A i \in Invocations :
    Returned(i) =>
      /\ outcome[i].value.complianceScore >= 0
      /\ outcome[i].value.complianceScore <= 100
      /\ RatLeq(RatOfInt(0), outcome[i].value.confidence)
      /\ RatLeq(outcome[i].value.confidence, RatOfInt(1))

\* A normal return on non-empty texts with a perfect match penalised for
\* its difference, and a score that is neither 0 nor 100
C3_Witness ==
  \E i \in Invocations :
    /\ ReturnedNormally(i)
    /\ args[i].submittalText # <<LineEmpty>>
    /\ args[i].specificationText # <<LineEmpty>>
    /\ outcome[i].value.confidence = Rat(9, 10)
    /\ outcome[i].value.complianceScore > 0
    /\ outcome[i].value.complianceScore < 100

\* The lowercase words of a section's content
WordsOf(section) == Range(splitWhitespace(toLowerCase(section.content)))

ZeroOverlap(specSection, submittalSections) ==
  \A k \in 1..Len(submittalSections) :
    WordsOf(specSection) \cap WordsOf(submittalSections[k]) = {}

NoAcceptedMatch(specSection, submittalSections) ==
  \A k \in 1..Len(submittalSections) :
    ~RatLt(AcceptThreshold,
           calculateSectionMatchScore(specSection, submittalSections[k]))

ContainsShall(section) == includes(section.content, Kw_shall)

HasFindings(i) == "detailedFindings" \in DOMAIN frame[i]

\* C5: the missing elements are the specification sections without an
\* accepted match, one each and in order, and so are the findings; a section
\* among them whose body contains "shall" and shares no token with any
\* submittal section has criticality 'critical' in its missing element and
\* severity 'critical' in its finding.
C5_ShallSectionMissingIsCritical ==
  \A i \in Invocations :
    HasFindings(i) =>
      LET unmatched ==
            SelectSeq(frame[i].specificationSections,
              LAMBDA s : NoAcceptedMatch(s, frame[i].submittalSections))
          missing == frame[i].comparisonResult.missingElements
          findings == frame[i].detailedFindings
      IN  /\ Len(missing) = Len(unmatched)
          /\ Len(findings) = Len(unmatched)
          /\ \A k \in 1..Len(unmatched) :
               /\ missing[k].specificationRequirement = unmatched[k].title
               /\ findings[k].section = unmatched[k].title
               /\ (ContainsShall(unmatched[k])
                   /\ ZeroOverlap(unmatched[k], frame[i].submittalSections))
                  => /\ missing[k].criticality = "critical"
                     /\ findings[k].severity = "critical"

\* A "shall" section under a title with no critical keyword, sharing no
\* token with the submittal's one section, has its critical finding
C5_Witness ==
  \E i \in Invocations :
    /\ HasFindings(i)
    /\ Len(frame[i].submittalSections) > 0
    /\ \E k \in 1..Len(frame[i].specificationSections) :
         LET s == frame[i].specificationSections[k] IN
         /\ ContainsShall(s)
         /\ s.title = LineMaterials
         /\ ZeroOverlap(s, frame[i].submittalSections)
    /\ \E k \in 1..Len(frame[i].detailedFindings) :
         /\ frame[i].detailedFindings[k].severity = "critical"
         /\ frame[i].detailedFindings[k].section = LineMaterials

\* The collection-valued fields of a result C10 names, but improvement_areas
EmptyCollections(r) ==
  /\ r.findings = <<>>
  /\ r.recommendations = <<>>
  /\ r.categories = <<>>
  /\ r.detailedFindings = <<>>
  /\ r.actionItems = <<>>
  /\ r.complianceMatrix.categories = <<>>
  /\ r.riskAssessment.risk_factors = <<>>
  /\ r.riskAssessment.mitigation_strategies = <<>>

DegradedScalars(r) ==
  /\ r.complianceScore = 0
  /\ r.overallAssessment = "requires-review"
  /\ r.riskAssessment.overall_risk = "high"

\* C10, as stated: the degraded result has score 0, assessment
\* 'requires-review', overall_risk 'high' and every collection-valued field
\* empty, qualityMetrics.improvement_areas included.
C10_DegradedAllCollectionsEmpty ==
  \A i \in Invocations :
    ReturnedDegraded(i) =>
      /\ DegradedScalars(outcome[i].value)
      /\ EmptyCollections(outcome[i].value)
      /\ outcome[i].value.qualityMetrics.improvement_areas = <<>>

\* C10, amended: the same, except that improvement_areas holds the one
\* entry 'Analysis failed - manual review required'.
C10_DegradedResultFixed ==
  \A i \in Invocations :
    ReturnedDegraded(i) =>
      /\ DegradedScalars(outcome[i].value)
      /\ EmptyCollections(outcome[i].value)
      /\ outcome[i].value.qualityMetrics.improvement_areas =
           <<"Analysis failed - manual review required">>

\* The first step threw and the call has returned
C10_Witness ==
  \E i \in Invocations : Returned(i) /\ fault[i] = "extract"


\* C2: every result analyzeSubmittalCompliance returns, on the normal path and
\* on the degraded path, passes EnhancedDocumentAnalysisResultSchema
\* validation.
C2_EveryResultSchemaValid ==
  \A i \in Invocations :
    Returned(i) =>
      Parse(EnhancedDocumentAnalysisResultSchema, EncodeResult(outcome[i].value)).ok

\* C2, what the code does keep: completenessScore is the only field that
\* fails validation.  With the percentage the engine stores there read as a
\* fraction, every returned result validates.
C2_ValidButForCompleteness ==
  \A i \in Invocations :
    Returned(i) =>
      Parse(EnhancedDocumentAnalysisResultSchema,
            EncodeResult([outcome[i].value EXCEPT
              !.analysisMetadata.completenessScore = RatDivInt(@, 100)])).ok

\* A normal return whose completenessScore is the percentage 100
C2_Witness ==
  \E i \in Invocations :
    /\ ReturnedNormally(i)
    /\ outcome[i].value.analysisMetadata.completenessScore = RatOfInt(100)
    /\ Len(outcome[i].value.detailedFindings) > 0

\* ------------------------------------------------------------------------
\* Properties of sanitizeAndValidateAnalysisResult
\* ------------------------------------------------------------------------
ChangeClasses(input) == {Changes[k].class : k \in input.changes}
FirstCalled == sanFirst.kind # "idle"
SecondCalled == sanSecond.kind # "idle"
InputValid == Parse(EnhancedDocumentAnalysisResultSchema, sanInput.value).ok

\* The input's only defects are scalar fields with a per-field default, or
\* the input is not an object at all
OnlyDefaultedDefects ==
  \/ ~sanInput.object
  \/ /\ "scalar" \in ChangeClasses(sanInput)
     /\ ChangeClasses(sanInput) \subseteq {"scalar", "variation"}

\* C8: when the input's only defects are missing or invalid scalar fields
\* that have a per-field default, or the input is not an object, the call
\* returns a schema-valid object; it raises only when the defect lies in data
\* sanitization passes through unchanged.
C8_DefaultsAreSchemaValid ==
  FirstCalled =>
    /\ OnlyDefaultedDefects =>
         /\ sanFirst.kind = "returned"
         /\ Parse(EnhancedDocumentAnalysisResultSchema, sanFirst.value).ok
    /\ sanFirst.kind = "raised" => "passthrough" \in ChangeClasses(sanInput)

\* The changes whose default, or whose value kept by sanitizeString or by the
\* unbounded sanitizeNumber, the schema rejects
UnsoundChanges ==
  {k \in 1..Len(Changes) :
     \/ Changes[k].path \in {<<"analysisMetadata">>,
                             <<"analysisMetadata", "modelUsed">>,
                             <<"analysisMetadata", "analysisType">>}
     \/ /\ Changes[k].path = <<"complianceMatrix", "critical_issues">>
        /\ Changes[k].to.t = "number"}

\* C8, what the code does keep: the call raises only for an input that is not
\* an object, a defect in passed-through data, a missing or unlisted
\* modelUsed, an unlisted analysisType or a negative issue count; a result
\* it returns is schema-valid.
C8_RaisesOnlyWhere ==
  FirstCalled =>
    /\ sanFirst.kind = "returned" =>
         Parse(EnhancedDocumentAnalysisResultSchema, sanFirst.value).ok
    /\ sanFirst.kind = "raised" =>
         \/ ~sanInput.object
         \/ "passthrough" \in ChangeClasses(sanInput)
         \/ sanInput.changes \cap UnsoundChanges # {}

\* The first call raised on an input whose one defect is a missing
\* analysisMetadata
C8_Witness ==
  /\ FirstCalled
  /\ sanInput.object
  /\ Cardinality(sanInput.changes) = 1
  /\ \A k \in sanInput.changes : Changes[k].path = <<"analysisMetadata">>
  /\ sanFirst.kind = "raised"

\* Every field the result has and the input gave has the input's value
RECURSIVE SameWhereGiven(_, _)
SameWhereGiven(given, result) ==
  /\ given.t = result.t
  /\ CASE given.t \in {"undefined", "null"} -> TRUE
       [] given.t = "array" ->
            /\ Len(given.v) = Len(result.v)
            /\ \A k \in 1..Len(given.v) : SameWhereGiven(given.v[k], result.v[k])
       [] given.t = "object" ->
            \A k \in DOMAIN result.v \cap DOMAIN given.v :
              SameWhereGiven(given.v[k], result.v[k])
       [] OTHER -> given.v = result.v

SecondReturnsFirst ==
  SecondCalled => sanSecond.kind = "returned" /\ JsSame(sanSecond.value, sanFirst.value)

\* C9 as stated: a second call on the result r of a first call returns r
\* unchanged, and an already schema-valid input is returned with no field
\* altered: the result is the input.
C9_IdempotentAndValidInputUnchanged ==
  /\ SecondReturnsFirst
  /\ (FirstCalled /\ InputValid) =>
       sanFirst.kind = "returned" /\ JsSame(sanFirst.value, sanInput.value)

\* C9 amended: a second call on the result r of a first call returns r
\* unchanged; an already schema-valid input is returned with every field the
\* schema declares and the input carries unaltered, the keys the schema does
\* not declare dropped, and an absent relatedFindings, attachments or
\* dependencies filled with the empty list.
C9_IdempotentAndDeclaredFieldsKept ==
  /\ SecondReturnsFirst
  /\ (FirstCalled /\ InputValid) =>
       /\ sanFirst.kind = "returned"
       /\ SameWhereGiven(sanInput.value, sanFirst.value)
       /\ DOMAIN sanFirst.value.v \subseteq
            DOMAIN sanInput.value.v \cap DOMAIN EnhancedDocumentAnalysisResultSchema.fields

\* A second call has returned, a day after the first, on the result of
\* sanitizing an input with a defaulted field
C9_Witness ==
  /\ SecondCalled
  /\ ~InputValid
  /\ today > 0
  /\ JsSame(Get(sanFirst.value, "complianceScore"), N(0))

\* ------------------------------------------------------------------------
\* Properties of the compliance matrix and the overall assessment
\* ------------------------------------------------------------------------
Assessed == matrixOutput.kind = "assessed"
MatrixComputed == matrixInput.kind = "sections" /\ matrixOutput.kind # "idle"

\* C4: overallAssessment is 'non-compliant' whenever critical_issues > 0,
\* whatever overall_score is; otherwise 'compliant' if overall_score >= 90;
\* otherwise 'partially-compliant' if overall_score >= 70; otherwise
\* 'requires-review'.
C4_AssessmentRule ==
  Assessed =>
    LET critical == matrixOutput.matrix.critical_issues
        score == matrixOutput.matrix.overall_score
        assessment == matrixOutput.overallAssessment
    IN  /\ critical > 0 => assessment = "non-compliant"
        /\ (critical = 0 /\ score >= 90) => assessment = "compliant"
        /\ (critical = 0 /\ score >= 70 /\ score < 90) =>
             assessment = "partially-compliant"
        /\ (critical = 0 /\ score < 70) => assessment = "requires-review"

\* A matrix with a critical issue and a score of at least 90 has been
\* assessed
C4_Witness ==
  /\ Assessed
  /\ matrixOutput.matrix.critical_issues > 0
  /\ matrixOutput.matrix.overall_score >= 90
  /\ matrixOutput.overallAssessment = "non-compliant"

CheckedCategories(categories) == SelectSeq(categories, LAMBDA c : c.items_checked > 0)

\* C7: a category with items_checked = 0 gets score 100 and status
\* 'review-required', and when at least one category is checked overall_score
\* is not lower than the rounded weighted mean over the checked categories
\* alone.
C7_UncheckedCategoriesNeverLower ==
  MatrixComputed =>
    LET categories == matrixOutput.matrix.categories IN
    /\ \A k \in 1..Len(categories) :
         categories[k].items_checked = 0 =>
           categories[k].score = 100 /\ categories[k].status = "review-required"
    /\ Len(CheckedCategories(categories)) > 0 =>
         matrixOutput.matrix.overall_score >= WeightedScore(CheckedCategories(categories))

\* A matrix with a checked category scoring below 100 and unchecked ones,
\* whose overall_score is above the mean over the checked categories alone
C7_Witness ==
  /\ MatrixComputed
  /\ LET categories == matrixOutput.matrix.categories IN
     /\ \E k \in 1..Len(categories) : categories[k].items_checked = 0
     /\ \E k \in 1..Len(categories) :
          categories[k].items_checked > 0 /\ categories[k].score < 100
     /\ matrixOutput.matrix.overall_score > WeightedScore(CheckedCategories(categories))

\* ------------------------------------------------------------------------
\* Properties of repeated calls
\* ------------------------------------------------------------------------
BothReturnedNormally ==
  /\ ReturnedNormally(1) /\ ReturnedNormally(2)
  /\ args[1] = args[2]

WithoutDeadlines(findings) ==
  [k \in 1..Len(findings) |->
     [f \in DOMAIN findings[k] \ {"deadline"} |-> findings[k][f]]]

\* C6: two invocations with identical submittal text, specification text and
\* analysisId return identical complianceScore, categories and
\* detailedFindings, every field of every finding included, whenever each
\* runs.
C6_RepeatedCallSameResult ==
  BothReturnedNormally =>
    /\ outcome[1].value.complianceScore = outcome[2].value.complianceScore
    /\ outcome[1].value.categories = outcome[2].value.categories
    /\ outcome[1].value.detailedFindings = outcome[2].value.detailedFindings

\* C6, what the code does keep: the two results agree on complianceScore, on
\* categories and on every field of every finding but deadline.
C6_SameButForDeadlines ==
  BothReturnedNormally =>
    /\ outcome[1].value.complianceScore = outcome[2].value.complianceScore
    /\ outcome[1].value.categories = outcome[2].value.categories
    /\ WithoutDeadlines(outcome[1].value.detailedFindings)
         = WithoutDeadlines(outcome[2].value.detailedFindings)

\* Both calls returned normally with a finding whose deadline differs
C6_Witness ==
  /\ BothReturnedNormally
  /\ Len(outcome[1].value.detailedFindings) > 0
  /\ outcome[1].value.detailedFindings[1].deadline
       # outcome[2].value.detailedFindings[1].deadline

\* ------------------------------------------------------------------------
\* Properties of the steps of one analysis
\* ------------------------------------------------------------------------
HasSections(i) == "specificationSections" \in DOMAIN frame[i]
HasComparison(i) == "comparisonResult" \in DOMAIN frame[i]
HasMatrix(i) == "complianceMatrix" \in DOMAIN frame[i]
HasRisks(i) == "riskAssessment" \in DOMAIN frame[i]

\* The category a record of the matrix stands for, read back from its name
\* the way generateCategoryAnalysis reads it
CategoryOfRecord(c) == replaceFirst(toLowerCase(c.name), " ", "-")

\* The name of a record is the category's identifier with a space for the
\* hyphen, whatever the case of its letters
NamesCategory(c, category) ==
  LET chars == CategoryChars(category) IN
  /\ Len(c.name) = Len(chars)
  /\ \A p \in 1..Len(chars) :
       \/ c.name[p] = chars[p]
       \/ chars[p] = "-" /\ c.name[p] = " "
       \/ IsLower(chars[p]) /\ c.name[p] = UpperChar(chars[p])

SectionsIn(sections, category) ==
  Cardinality({k \in 1..Len(sections) : sections[k].category = category})

\* C11: the matrix calculateComplianceMatrix returns holds exactly one record
\* for each of the 10 fixed categories, whichever categories the
\* specification sections fall into and also when there is no specification
\* section; the record of a category counts in items_checked the
\* specification sections of that category, so a category no section uses is
\* present with items_checked = 0.
C11_OneRecordPerCategory ==
  \A i \in Invocations :
    HasMatrix(i) =>
      LET categories == frame[i].complianceMatrix.categories IN
      /\ Len(categories) = 10
      /\ Cardinality(FindingCategoryValues) = 10
      /\ \A c \in FindingCategoryValues :
           \E k \in 1..Len(categories) :
             /\ categories[k].items_checked =
                  SectionsIn(frame[i].specificationSections, c)
             /\ NamesCategory(categories[k], c)

\* A matrix computed for specification sections of two categories: the
\* other eight categories are present with nothing checked
C11_Witness ==
  \E i \in Invocations :
    /\ HasMatrix(i)
    /\ LET categories == frame[i].complianceMatrix.categories IN
       /\ Cardinality({k \in 1..Len(categories) :
                         categories[k].items_checked > 0}) = 2
       /\ Cardinality({k \in 1..Len(categories) :
                         categories[k].items_checked = 0}) = 8

\* No line of the text is detected as a header
Headerless(text) == \A k \in 1..Len(text) : ~isSectionHeader(trim(text[k]))

\* The one section holds every line of the text
CoversAll(sections, text) ==
  /\ Len(sections) = 1
  /\ \A k \in 1..Len(text) : includes(sections[1].content, trim(text[k]))

\* C12: text in which no line is detected as a header, the empty text
\* included, is extracted as exactly one section that covers all of its
\* content, never as zero sections.
C12_HeaderlessTextIsOneSection ==
  \A i \in Invocations :
    HasSections(i) =>
      /\ Headerless(args[i].submittalText) =>
           CoversAll(frame[i].submittalSections, args[i].submittalText)
      /\ Headerless(args[i].specificationText) =>
           CoversAll(frame[i].specificationSections, args[i].specificationText)

\* C12, what the code does: text without a header is extracted as no
\* section at all, its lines dropped; text with a header has a section.
C12_HeaderlessTextHasNoSection ==
  \A i \in Invocations :
    HasSections(i) =>
      /\ Headerless(args[i].submittalText) <=> frame[i].submittalSections = <<>>
      /\ Headerless(args[i].specificationText) <=>
           frame[i].specificationSections = <<>>

\* A specification of one content line and no header has been extracted
C12_Witness ==
  \E i \in Invocations :
    /\ HasSections(i)
    /\ args[i].specificationText = <<LineShall>>
    /\ frame[i].specificationSections = <<>>

\* The call of the fire rating example: the specification "1. FIRE RATING"
\* with the line "Door shall have 90 minute fire rating.", the submittal
\* "1. FIRE RATING" with "Door has 90 minute fire rating. UL Listed."
ExampleCall(i) ==
  /\ args[i].specificationText = <<LineFireRating, LineShall>>
  /\ args[i].submittalText = <<LineFireRating, LineHas>>

\* The record of the matrix that stands for a category
RecordOf(categories, c) ==
  categories[CHOOSE k \in 1..Len(categories) :
               CategoryOfRecord(categories[k]) = CategoryChars(c)]

\* C13: in the fire rating example the specification section matches the
\* submittal section with a match score of about 1.0 (above 0.9), there is
\* no MissingElement, and the safety-requirements category has status 'pass'.
C13_ExampleMatchesAndSafetyPasses ==
  \A i \in Invocations :
    (HasMatrix(i) /\ ExampleCall(i)) =>
      LET comparison == frame[i].comparisonResult IN
      /\ Len(comparison.similarities) = 1
      /\ RatLt(Rat(9, 10), comparison.similarities[1].matchScore)
      /\ comparison.missingElements = <<>>
      /\ RecordOf(frame[i].complianceMatrix.categories,
                  "safety-requirements").status = "pass"

\* C13, what the code does: the two bodies share 5 of their 10 words, so the
\* section is matched with score 0.5 ('semantic') and there is no
\* MissingElement; the title names no category keyword, so the section counts
\* under documentation, which fails with score 0, and safety-requirements is
\* left unchecked at 'review-required'.
C13_ExampleMatchesByHalf ==
  \A i \in Invocations :
    (HasMatrix(i) /\ ExampleCall(i)) =>
      LET comparison == frame[i].comparisonResult
          categories == frame[i].complianceMatrix.categories
      IN  /\ Len(comparison.similarities) = 1
          /\ comparison.similarities[1].matchScore = Rat(1, 2)
          /\ comparison.similarities[1].matchType = "semantic"
          /\ comparison.missingElements = <<>>
          /\ frame[i].specificationSections[1].category = "documentation"
          /\ RecordOf(categories, "safety-requirements").items_checked = 0
          /\ RecordOf(categories, "safety-requirements").status = "review-required"
          /\ RecordOf(categories, "documentation").items_checked = 1
          /\ RecordOf(categories, "documentation").score = 0
          /\ RecordOf(categories, "documentation").status = "fail"

\* The matrix of the fire rating example has been computed
C13_Witness ==
  \E i \in Invocations :
    /\ HasMatrix(i)
    /\ ExampleCall(i)
    /\ Len(frame[i].specificationSections) = 1
    /\ Len(frame[i].submittalSections) = 1

HasQuality(i) == "qualityMetrics" \in DOMAIN frame[i]

\* The specification sections some submittal section is an accepted match of
MatchedSections(specificationSections, submittalSections) ==
  {k \in 1..Len(specificationSections) :
     ~NoAcceptedMatch(specificationSections[k], submittalSections)}

\* The findings that report a missing element
MissingInformationFindings(findings) ==
  {k \in 1..Len(findings) :
     findings[k].title[1] = "Missing Required Information: "}

TwoOfFiveMatched(i) ==
  /\ HasQuality(i)
  /\ Len(frame[i].specificationSections) = 5
  /\ Cardinality(MatchedSections(frame[i].specificationSections,
                                 frame[i].submittalSections)) = 2

\* C14: for every specification of 5 sections and every submittal whose
\* sections give an accepted match to exactly 2 of them, there are exactly 3
\* missing elements, 3 'Missing Required Information' findings, and
\* qualityMetrics.completeness = 40.
C14_TwoOfFiveIsFortyPercent ==
  \A i \in Invocations :
    TwoOfFiveMatched(i) =>
      /\ Len(frame[i].comparisonResult.missingElements) = 3
      /\ Cardinality(MissingInformationFindings(frame[i].detailedFindings)) = 3
      /\ frame[i].qualityMetrics.completeness = 40

\* C14, what the code does: there are 3 missing elements and 3 'Missing
\* Required Information' findings, and completeness is 20 for each section
\* the submittal has, matched or not, up to 100.
C14_ThreeMissingCompletenessBySections ==
  \A i \in Invocations :
    TwoOfFiveMatched(i) =>
      /\ Len(frame[i].comparisonResult.missingElements) = 3
      /\ Cardinality(MissingInformationFindings(frame[i].detailedFindings)) = 3
      /\ frame[i].qualityMetrics.completeness =
           IF Len(frame[i].submittalSections) >= 5 THEN 100
           ELSE 20 * Len(frame[i].submittalSections)

\* A submittal of three sections, one of them matching nothing, matches two
\* of the five specification sections: completeness is 60
C14_Witness ==
  \E i \in Invocations :
    /\ TwoOfFiveMatched(i)
    /\ Len(frame[i].submittalSections) = 3
    /\ Len(frame[i].comparisonResult.missingElements) = 3
    /\ frame[i].qualityMetrics.completeness = 60

\* ------------------------------------------------------------------------
\* Properties of calls that overlap
\* ------------------------------------------------------------------------
\* What a call with arguments a returns when it runs with no other call in
\* progress and reads the clock on the given days
RunAlone(a, cfg, dayFindings, dayActions, dayReturn) ==
  LET submittalSections == extractSections(a.submittalText)
      specificationSections == extractSections(a.specificationText)
      comparisonResult == performComparison(submittalSections, specificationSections)
      detailedFindings ==
        generateDetailedFindings(comparisonResult, submittalSections,
                                 specificationSections, dayFindings)
      riskAssessment == assessRisks(detailedFindings, comparisonResult)
  IN  AssembleResult(
        [submittalSections |-> submittalSections,
         specificationSections |-> specificationSections,
         comparisonResult |-> comparisonResult,
         complianceMatrix |->
           calculateComplianceMatrix(comparisonResult, submittalSections,
                                     specificationSections, cfg),
         detailedFindings |-> detailedFindings,
         riskAssessment |-> riskAssessment,
         qualityMetrics |->
           calculateQualityMetrics(a.submittalText, a.specificationText,
                                   detailedFindings),
         actionItems |->
           generateActionItems(detailedFindings, riskAssessment, dayActions)],
        a.analysisId, dayReturn)

\* The day on which a call read the clock at step 4 and at step 7, read back
\* from the deadline and the due date the step wrote (0 when it wrote none)
DayOfFindings(r) ==
  IF r.detailedFindings = <<>> \/ "deadline" \notin DOMAIN r.detailedFindings[1]
  THEN 0
  ELSE r.detailedFindings[1].deadline
       - calculateDeadline(r.detailedFindings[1].severity, 0)

DayOfActions(r) ==
  IF r.actionItems = <<>> THEN 0
  ELSE r.actionItems[1].due_date
       - (IF r.actionItems[1].priority = "critical" THEN 7
          ELSE IF r.actionItems[1].priority = "high" THEN 14 ELSE 21)

\* C15: invocations on the shared engine for unrelated requests do not
\* interfere: under every interleaving of two invocations each returns the
\* result it would return if run alone (reading the clock on the same days),
\* a fault in one leaves the other's result as it is, and the engine's
\* configuration is never modified.
C15_CallsDoNotInterfere ==
  /\ config = DefaultConfig
  /\ \A i \in Invocations :
       /\ ReturnedNormally(i) =>
            /\ outcome[i].value =
                 RunAlone(args[i], DefaultConfig,
                          DayOfFindings(outcome[i].value),
                          DayOfActions(outcome[i].value),
                          outcome[i].value.analysisMetadata.timestamp)
            /\ DayOfFindings(outcome[i].value) \in 0..today
            /\ DayOfActions(outcome[i].value) \in 0..today
            /\ outcome[i].value.analysisMetadata.timestamp \in 0..today
       /\ ReturnedDegraded(i) =>
            /\ outcome[i].value =
                 generateErrorResponse(args[i].analysisId, fault[i],
                   outcome[i].value.analysisMetadata.timestamp)
            /\ outcome[i].value.analysisMetadata.timestamp \in 0..today

\* The second call started while the first was suspended at its await and
\* has returned, on other documents, before the first resumed
C15_Witness ==
  /\ pc[1] = "await"
  /\ ReturnedNormally(2)
  /\ args[1].specificationText # args[2].specificationText
  /\ args[1].submittalText # args[2].submittalText
  /\ today > 0

\* ------------------------------------------------------------------------
\* Properties of the category scores
\* ------------------------------------------------------------------------
Scored == matrixInput.kind = "comparison" /\ matrixOutput.kind # "idle"

\* s is passed / checked * 100 rounded to the nearest integer, halves up
IsRoundedPercent(s, passed, checked) ==
  /\ 2 * s * checked <= 200 * passed + checked
  /\ 200 * passed + checked < 2 * s * checked + 2 * checked

\* C16: for every category with items_checked > 0, score is
\* round(items_passed / items_checked * 100), and status is 'fail' if
\* critical_failures is non-empty, otherwise 'pass' if score >= the
\* configured compliancePassScore, otherwise 'conditional' if score >= 60,
\* otherwise 'fail'.
C16_CategoryScoreAndStatus ==
  Scored =>
    \A k \in 1..Len(matrixOutput.matrix.categories) :
      LET c == matrixOutput.matrix.categories[k] IN
      c.items_checked > 0 =>
        /\ IsRoundedPercent(c.score, c.items_passed, c.items_checked)
        /\ c.critical_failures # <<>> => c.status = "fail"
        /\ (c.critical_failures = <<>> /\ c.score >= config.compliancePassScore)
             => c.status = "pass"
        /\ (c.critical_failures = <<>> /\ c.score < config.compliancePassScore
            /\ c.score >= 60) => c.status = "conditional"
        /\ (c.critical_failures = <<>> /\ c.score < config.compliancePassScore
            /\ c.score < 60) => c.status = "fail"

\* A matrix with a category whose every item passed and that fails for its
\* critical failures
C16_Witness ==
  /\ Scored
  /\ config.compliancePassScore = DefaultPassScore
  /\ \E k \in 1..Len(matrixOutput.matrix.categories) :
       LET c == matrixOutput.matrix.categories[k] IN
       /\ c.score = 100 /\ c.items_checked > 0
       /\ c.critical_failures # <<>> /\ c.status = "fail"

\* ------------------------------------------------------------------------
\* Properties of the overall score
\* ------------------------------------------------------------------------
\* The weights C17 names, in tenths, in the order of the matrix
ClaimedWeights ==
  << <<"material-specifications", 8>>, <<"dimensional-requirements", 7>>,
     <<"performance-standards", 8>>, <<"testing-requirements", 7>>,
     <<"installation-procedures", 6>>, <<"quality-control", 6>>,
     <<"documentation", 5>>, <<"regulatory-compliance", 9>>,
     <<"safety-requirements", 10>>, <<"environmental-considerations", 5>> >>

\* Sum of score * weight, and of weight, over the first k claimed weights
RECURSIVE ClaimedScoreSum(_, _)
ClaimedScoreSum(categories, k) ==
  IF k = 0 THEN 0
  ELSE categories[k].score * ClaimedWeights[k][2]
       + ClaimedScoreSum(categories, k - 1)

RECURSIVE ClaimedWeightSum(_)
ClaimedWeightSum(k) ==
  IF k = 0 THEN 0 ELSE ClaimedWeights[k][2] + ClaimedWeightSum(k - 1)

\* s is total / weights rounded to the nearest integer, halves up
IsRoundedQuotient(s, total, weights) ==
  /\ 2 * s * weights <= 2 * total + weights
  /\ 2 * total + weights < 2 * s * weights + 2 * weights

\* C17: every category (the k-th record is the one that counts the sections
\* of the k-th category) carries the fixed weight (safety-requirements 1.0,
\* regulatory-compliance 0.9, material-specifications and
\* performance-standards 0.8, dimensional-requirements and
\* testing-requirements 0.7, quality-control and installation-procedures 0.6,
\* documentation and environmental-considerations 0.5), and overall_score is
\* round(sum(score * weight) / sum(weight)) over the ten categories.
C17_OverallScoreIsWeightedMean ==
  MatrixComputed =>
    LET categories == matrixOutput.matrix.categories IN
    /\ Len(categories) = Len(ClaimedWeights)
    /\ \A k \in 1..Len(ClaimedWeights) :
         /\ categories[k].items_checked =
              SectionsIn(matrixInput.specificationSections, ClaimedWeights[k][1])
         /\ categories[k].weight = ClaimedWeights[k][2]
    /\ IsRoundedQuotient(matrixOutput.matrix.overall_score,
                         ClaimedScoreSum(categories, Len(ClaimedWeights)),
                         ClaimedWeightSum(Len(ClaimedWeights)))

\* A matrix in which safety-requirements scores 0 and documentation 100,
\* whose overall_score is not the plain mean of its category scores
C17_Witness ==
  /\ MatrixComputed
  /\ LET categories == matrixOutput.matrix.categories IN
     /\ RecordOf(categories, "safety-requirements").score = 0
     /\ RecordOf(categories, "documentation").score = 100
     /\ matrixOutput.matrix.overall_score # UnweightedScore(categories)

\* ------------------------------------------------------------------------
\* Properties of section matching
\* ------------------------------------------------------------------------
Matched == matrixInput.kind = "drawn" /\ matrixOutput.kind # "idle"
Compared == matrixInput.kind = "drawn" /\ matrixOutput.kind = "compared"

\* The Jaccard overlap of the two bodies' word sets is above num / den
OverlapAbove(specSection, submittalSection, num, den) ==
  den * Cardinality(WordsOf(specSection) \cap WordsOf(submittalSection))
    > num * Cardinality(WordsOf(specSection) \cup WordsOf(submittalSection))

\* The submittal sections that are an accepted match of a section
AcceptedFor(specSection, submittalSections) ==
  {j \in 1..Len(submittalSections) :
     OverlapAbove(specSection, submittalSections[j], 3, 10)}

\* C18: the matches of a specification section are its pairs with the
\* submittal sections whose Jaccard overlap of lowercase whitespace-tokenized
\* body word sets is strictly greater than 0.30, and no other pair; a match
\* carries that overlap as its score and has matchType 'exact' if score >
\* 0.8, 'partial' if score > 0.6, otherwise 'semantic'; and the matches of
\* one specification section are ordered by non-increasing score.
C18_AcceptedMatchesTypedAndSorted ==
  Matched =>
    \A k \in 1..Len(matrixInput.specificationSections) :
      LET specSection == matrixInput.specificationSections[k]
          submittalSections == matrixInput.submittalSections
          matches == matrixOutput.matches[k]
      IN  /\ Len(matches) = Cardinality(AcceptedFor(specSection, submittalSections))
          /\ {matches[a].submittalSection : a \in 1..Len(matches)} =
               {submittalSections[j].id : j \in AcceptedFor(specSection, submittalSections)}
          /\ \A a \in 1..Len(matches) :
               LET m == matches[a]
                   j == CHOOSE j \in 1..Len(submittalSections) :
                          submittalSections[j].id = m.submittalSection
                   both == WordsOf(specSection) \cap WordsOf(submittalSections[j])
                   either == WordsOf(specSection) \cup WordsOf(submittalSections[j])
               IN  /\ m.specificationSection = specSection.id
                   /\ m.matchScore.n * Cardinality(either)
                        = m.matchScore.d * Cardinality(both)
                   /\ m.matchType =
                        IF OverlapAbove(specSection, submittalSections[j], 8, 10)
                        THEN "exact"
                        ELSE IF OverlapAbove(specSection, submittalSections[j], 6, 10)
                        THEN "partial" ELSE "semantic"
          /\ \A a \in 1..Len(matches) : \A b \in (a + 1)..Len(matches) :
               RatLeq(matches[b].matchScore, matches[a].matchScore)

\* A specification section with two matches, the 'exact' one found second
\* and sorted before the 'partial' one
C18_Witness ==
  /\ Matched
  /\ \E k \in 1..Len(matrixInput.specificationSections) :
       LET specSection == matrixInput.specificationSections[k]
           submittalSections == matrixInput.submittalSections
           matches == matrixOutput.matches[k]
       IN  /\ Len(submittalSections) = 2 /\ Len(matches) = 2
           /\ matches[1].submittalSection = submittalSections[2].id
           /\ RatLt(matches[2].matchScore, matches[1].matchScore)
           /\ matches[1].matchType = "exact" /\ matches[2].matchType = "partial"

\* The specification sections none of the submittal sections is an accepted
\* match of, in order
Unmatched(specificationSections, submittalSections) ==
  SelectSeq(specificationSections,
            LAMBDA s : AcceptedFor(s, submittalSections) = {})

\* The body of a section contains one of the words of the claim
NamesCriticalWord(section) ==
  \E w \in {Kw_safety, Kw_structural, Kw_fire, Kw_code, Kw_required, Kw_shall} :
    includes(toLowerCase(section.content), w)

\* C19: every specification section is accounted for exactly once: a section
\* with zero accepted matches yields exactly one missing element, 'critical'
\* if its body contains any of safety, structural, fire, code, required,
\* shall and 'major' otherwise; a section with an accepted match yields
\* none; and the number of missing elements plus the number of
\* specification sections that similarities name equals the number of
\* specification sections.
C19_EverySectionAccountedOnce ==
  Compared =>
    LET specificationSections == matrixInput.specificationSections
        missing == matrixOutput.comparison.missingElements
        similarities == matrixOutput.comparison.similarities
        unmatched == Unmatched(specificationSections, matrixInput.submittalSections)
    IN  /\ Len(missing) = Len(unmatched)
        /\ \A j \in 1..Len(unmatched) :
             /\ missing[j].id = <<"missing-", unmatched[j].id>>
             /\ missing[j].specificationRequirement = unmatched[j].title
             /\ missing[j].criticality =
                  IF NamesCriticalWord(unmatched[j]) THEN "critical" ELSE "major"
        /\ Len(missing)
             + Cardinality({similarities[a].specificationSection :
                              a \in 1..Len(similarities)})
             = Len(specificationSections)

\* Two specification sections compared with some submittal sections: one
\* has a match, the other is missing and critical
C19_Witness ==
  /\ Compared
  /\ Len(matrixInput.specificationSections) = 2
  /\ Len(matrixInput.submittalSections) > 0
  /\ Len(matrixOutput.comparison.missingElements) = 1
  /\ matrixOutput.comparison.missingElements[1].criticality = "critical"
  /\ Len(matrixOutput.comparison.similarities) > 0

\* ------------------------------------------------------------------------
\* Risk factors and their mitigation strategies
\* ------------------------------------------------------------------------
\* The risk_id a strategy for a factor of this category carries, the way
\* "compliance-risk" names the factor "Compliance Risk"
RiskIdOf(category) ==
  IF category = "Compliance Risk" THEN "compliance-risk"
  ELSE IF category = "Project Delay Risk" THEN "project-delay-risk"
  ELSE "other-risk"

HasFactor(assessment, category) ==
  \E k \in 1..Len(assessment.risk_factors) :
    assessment.risk_factors[k].category = category

\* C20: every emitted risk factor has a paired mitigation strategy: each
\* risk factor with mitigation_required = true has a corresponding entry in
\* mitigation_strategies, and the number of mitigation strategies equals the
\* number of risk factors.
C20_EveryRiskFactorHasMitigation ==
  \A i \in Invocations :
    HasRisks(i) =>
      LET assessment == frame[i].riskAssessment IN
      /\ Len(assessment.mitigation_strategies) = Len(assessment.risk_factors)
      /\ \A k \in 1..Len(assessment.risk_factors) :
           assessment.risk_factors[k].mitigation_required =>
             \E m \in 1..Len(assessment.mitigation_strategies) :
               assessment.mitigation_strategies[m].risk_id =
                 RiskIdOf(assessment.risk_factors[k].category)

\* What the code does instead: the only strategy ever emitted is the one of
\* the Compliance Risk factor, and the Project Delay Risk factor, which
\* requires mitigation, never has one
C20_OnlyComplianceRiskHasMitigation ==
  \A i \in Invocations :
    HasRisks(i) =>
      LET assessment == frame[i].riskAssessment IN
      /\ Len(assessment.mitigation_strategies) =
           (IF HasFactor(assessment, "Compliance Risk") THEN 1 ELSE 0)
      /\ \A m \in 1..Len(assessment.mitigation_strategies) :
           assessment.mitigation_strategies[m].risk_id = "compliance-risk"
      /\ \A k \in 1..Len(assessment.risk_factors) :
           assessment.risk_factors[k].mitigation_required

\* An assessment with the Project Delay Risk factor alone and no strategy
C20_Witness ==
  \E i \in Invocations :
    /\ HasRisks(i)
    /\ Len(frame[i].riskAssessment.risk_factors) = 1
    /\ HasFactor(frame[i].riskAssessment, "Project Delay Risk")
    /\ Len(frame[i].riskAssessment.mitigation_strategies) = 0

\* ------------------------------------------------------------------------
\* Quality metrics, risks and action items of a call
\* ------------------------------------------------------------------------
InSeq(x, q) == \E k \in 1..Len(q) : q[k] = x

\* The five sub-scores calculateQualityMetrics tests, with their names
TestedAreas(q) ==
  << <<"Documentation Quality", q.documentation_quality>>,
     <<"Technical Accuracy", q.technical_accuracy>>,
     <<"Completeness", q.completeness>>,
     <<"Clarity", q.clarity>>,
     <<"Consistency", q.consistency>> >>

\* C21: improvement_areas contains the name of every quality metric whose
\* value is below 70 and of no metric whose value is 70 or more, for each of
\* the six sub-scores documentation_quality, technical_accuracy,
\* completeness, clarity, consistency and compliance_readiness.
C21_EveryMetricBelowSeventyIsListed ==
  \A i \in Invocations :
    HasQuality(i) =>
      LET q == frame[i].qualityMetrics
          areas == TestedAreas(q)
                     \o << <<"Compliance Readiness", q.compliance_readiness>> >>
      IN  \A k \in 1..Len(areas) :
            InSeq(areas[k][1], q.improvement_areas) <=> areas[k][2] < 70

\* What the code does instead: the five sub-scores it tests are listed
\* exactly when below 70, in the order of the tests, and compliance_readiness
\* is never listed
C21_FiveMetricsListedReadinessNever ==
  \A i \in Invocations :
    HasQuality(i) =>
      LET q == frame[i].qualityMetrics
          areas == TestedAreas(q)
          below == SelectSeq(areas, LAMBDA a : a[2] < 70)
      IN  /\ q.improvement_areas = [k \in 1..Len(below) |-> below[k][1]]
          /\ ~InSeq("Compliance Readiness", q.improvement_areas)

\* A call whose compliance_readiness is below 70 and not listed, while
\* clarity and consistency are listed
C21_Witness ==
  \E i \in Invocations :
    /\ HasQuality(i)
    /\ frame[i].qualityMetrics.compliance_readiness < 70
    /\ ~InSeq("Compliance Readiness", frame[i].qualityMetrics.improvement_areas)
    /\ InSeq("Clarity", frame[i].qualityMetrics.improvement_areas)
    /\ InSeq("Consistency", frame[i].qualityMetrics.improvement_areas)

SeverityCount(findings, severity) ==
  Cardinality({k \in 1..Len(findings) : findings[k].severity = severity})

FactorsOf(assessment, category) ==
  {k \in 1..Len(assessment.risk_factors) :
     assessment.risk_factors[k].category = category}

\* The largest risk_score of the factors, 0 when there is none
HighestRiskScore(assessment) ==
  LET scores == {assessment.risk_factors[k].risk_score :
                   k \in 1..Len(assessment.risk_factors)} \cup {0}
  IN  CHOOSE m \in scores : \A x \in scores : x <= m

\* C22: a 'Compliance Risk' factor with risk_score 9 is emitted if and only
\* if at least one finding is critical, a 'Project Delay Risk' factor with
\* risk_score 6 if and only if more than two findings are major, no other
\* factor is emitted, and overall_risk is 'critical' if the maximum
\* risk_score is >= 8, 'high' if >= 6, 'medium' if >= 4 and otherwise 'low',
\* so 'low' when there is no risk factor.
C22_RiskFactorsAndOverallRisk ==
  \A i \in Invocations :
    HasRisks(i) =>
      LET assessment == frame[i].riskAssessment
          findings == frame[i].detailedFindings
          compliance == FactorsOf(assessment, "Compliance Risk")
          delay == FactorsOf(assessment, "Project Delay Risk")
          highest == HighestRiskScore(assessment)
      IN  /\ Cardinality(compliance) =
               (IF SeverityCount(findings, "critical") >= 1 THEN 1 ELSE 0)
          /\ Cardinality(delay) =
               (IF SeverityCount(findings, "major") > 2 THEN 1 ELSE 0)
          /\ Len(assessment.risk_factors) = Cardinality(compliance) + Cardinality(delay)
          /\ \A k \in compliance : assessment.risk_factors[k].risk_score = 9
          /\ \A k \in delay : assessment.risk_factors[k].risk_score = 6
          /\ assessment.overall_risk =
               (IF highest >= 8 THEN "critical"
                ELSE IF highest >= 6 THEN "high"
                ELSE IF highest >= 4 THEN "medium" ELSE "low")
          /\ (assessment.risk_factors = <<>>) => assessment.overall_risk = "low"

\* Exactly three major findings and no critical one: the delay factor
\* alone, overall_risk 'high'
C22_Witness ==
  \E i \in Invocations :
    /\ HasRisks(i)
    /\ SeverityCount(frame[i].detailedFindings, "major") = 3
    /\ SeverityCount(frame[i].detailedFindings, "critical") = 0
    /\ frame[i].riskAssessment.overall_risk = "high"

HasActions(i) == "actionItems" \in DOMAIN frame[i]

\* The ids of the findings of a severity, in the order of the findings
IdsOfSeverity(findings, severity) ==
  LET covered == SelectSeq(findings, LAMBDA f : f.severity = severity)
  IN  [k \in 1..Len(covered) |-> covered[k].id]

\* What the claim says of each of the three items: whether it is emitted,
\* its priority, days to its due date, hours, and the findings it covers
ClaimedItems(findings) ==
  LET criticals == IdsOfSeverity(findings, "critical")
      majors == IdsOfSeverity(findings, "major")
  IN  << [emitted |-> Len(criticals) >= 1, priority |-> "critical", days |-> 7,
          hours |-> 4 * Len(criticals), covers |-> criticals],
         [emitted |-> Len(majors) >= 1, priority |-> "high", days |-> 14,
          hours |-> 2 * Len(majors), covers |-> majors],
         [emitted |-> Len(findings) >= 1, priority |-> "medium", days |-> 21,
          hours |-> 8, covers |-> [k \in 1..Len(findings) |-> findings[k].id]] >>

\* C23: generateActionItems emits at most three items, in this order: a
\* critical item iff at least one finding is critical (due in 7 days, 4 hours
\* per critical finding), a major item iff at least one finding is major (due
\* in 14 days, 2 hours per major finding, depending on the critical item iff
\* that item was emitted), and a quality-review item iff any finding exists
\* (due in 21 days, 8 hours); every dependency names an item present in the
\* list, and each item's related_findings are exactly the ids of the
\* findings it covers.
C23_ActionItemsRule ==
  \A i \in Invocations :
    HasActions(i) =>
      LET items == frame[i].actionItems
          expected == SelectSeq(ClaimedItems(frame[i].detailedFindings),
                                LAMBDA e : e.emitted)
      IN  /\ Len(items) = Len(expected)
          /\ Len(items) <= 3
          /\ \A k \in 1..Len(expected) :
               /\ items[k].priority = expected[k].priority
               /\ items[k].due_date = today + expected[k].days
               /\ items[k].estimated_hours = expected[k].hours
               /\ items[k].related_findings = expected[k].covers
               /\ items[k].id = <<"action-", k>>
               /\ items[k].dependencies =
                    (IF expected[k].priority = "high" /\ expected[1].priority = "critical"
                     THEN <<items[1].id>> ELSE <<>>)
               /\ \A d \in 1..Len(items[k].dependencies) :
                    \E j \in 1..Len(items) : items[j].id = items[k].dependencies[d]

\* Three items on a day other than the first: a major finding comes before
\* the critical ones, and the major item depends on the critical item
C23_Witness ==
  \E i \in Invocations :
    /\ HasActions(i)
    /\ today > 0
    /\ Len(frame[i].actionItems) = 3
    /\ frame[i].detailedFindings[1].severity = "major"
    /\ Len(frame[i].actionItems[1].related_findings) > 1
    /\ frame[i].actionItems[2].dependencies = <<frame[i].actionItems[1].id>>

\* Math.round of num / den for den > 0, in integer arithmetic
RoundedQuotient(num, den) == (2 * num + den) \div (2 * den)

Larger(a, b) == IF a > b THEN a ELSE b
Smaller(a, b) == IF a < b THEN a ELSE b

SixSubScores(q) ==
  <<q.documentation_quality, q.technical_accuracy, q.completeness,
    q.clarity, q.consistency, q.compliance_readiness>>

\* The three sub-scores the claim gives as functions of the counts alone
CountFormulasHold(q, findings) ==
  LET critical == SeverityCount(findings, "critical")
      major == SeverityCount(findings, "major")
  IN  /\ q.documentation_quality = Larger(0, 100 - 20 * critical - 10 * major)
      /\ q.technical_accuracy = Larger(0, 100 - 15 * critical - 8 * major)
      /\ q.clarity = Smaller(100, Larger(50, 100 - 5 * Len(findings)))

AllInPercentRange(q) ==
  /\ \A k \in 1..6 : SixSubScores(q)[k] \in 0..100
  /\ q.overall_quality \in 0..100

\* C24: quality metrics follow the stated formulas for every count of
\* findings: documentation_quality = max(0, 100 - 20*critical - 10*major),
\* technical_accuracy = max(0, 100 - 15*critical - 8*major), clarity =
\* min(100, max(50, 100 - 5*findings)), compliance_readiness =
\* 0.6*documentation_quality + 0.4*technical_accuracy, overall_quality = the
\* unweighted mean of the six sub-scores (rounded); all six sub-scores and
\* overall_quality lie in [0,100].
C24_MetricsFollowStatedFormulas ==
  \A i \in Invocations :
    HasQuality(i) =>
      LET q == frame[i].qualityMetrics IN
      /\ CountFormulasHold(q, frame[i].detailedFindings)
      /\ 10 * q.compliance_readiness =
           6 * q.documentation_quality + 4 * q.technical_accuracy
      /\ q.overall_quality =
           RoundedQuotient(q.documentation_quality + q.technical_accuracy
                           + q.completeness + q.clarity + q.consistency
                           + q.compliance_readiness, 6)
      /\ AllInPercentRange(q)

\* C24, amended: the three count formulas and the range hold as stated;
\* compliance_readiness is 0.6*documentation_quality +
\* 0.4*technical_accuracy rounded to the nearest integer, and
\* overall_quality is the rounded mean of the other five sub-scores and the
\* compliance readiness before its rounding.
C24_MetricsFollowFormulasWithRounding ==
  \A i \in Invocations :
    HasQuality(i) =>
      LET q == frame[i].qualityMetrics
          readinessTenths == 6 * q.documentation_quality + 4 * q.technical_accuracy
      IN  /\ CountFormulasHold(q, frame[i].detailedFindings)
          /\ q.compliance_readiness = RoundedQuotient(readinessTenths, 10)
          /\ q.overall_quality =
               RoundedQuotient(
                 10 * (q.documentation_quality + q.technical_accuracy
                       + q.completeness + q.clarity + q.consistency)
                 + readinessTenths, 60)
          /\ AllInPercentRange(q)

\* A call whose compliance readiness is not a whole number and whose
\* overall_quality is not the rounded mean of the six returned sub-scores
C24_Witness ==
  \E i \in Invocations :
    /\ HasQuality(i)
    /\ LET q == frame[i].qualityMetrics IN
       /\ (6 * q.documentation_quality + 4 * q.technical_accuracy) % 10 # 0
       /\ q.overall_quality #
            RoundedQuotient(q.documentation_quality + q.technical_accuracy
                            + q.completeness + q.clarity + q.consistency
                            + q.compliance_readiness, 6)

\* ------------------------------------------------------------------------
\* Issue counts of the matrix and the overall assessment
\* ------------------------------------------------------------------------
\* C25: the result of analyzeSubmittalCompliance has
\* complianceMatrix.critical_issues = 0 and complianceMatrix.major_issues =
\* 0, because every ComparisonDifference is created with severity 'minor',
\* so overallAssessment is never 'non-compliant', also when detailedFindings
\* contains critical findings and riskAssessment.overall_risk is 'critical'.
C25_NoIssuesNeverNonCompliant ==
  \A i \in Invocations :
    /\ HasComparison(i) =>
         \A k \in 1..Len(frame[i].comparisonResult.differences) :
           frame[i].comparisonResult.differences[k].severity = "minor"
    /\ Returned(i) =>
         /\ outcome[i].kind = "resolved"
         /\ outcome[i].value.complianceMatrix.critical_issues = 0
         /\ outcome[i].value.complianceMatrix.major_issues = 0
         /\ outcome[i].value.overallAssessment # "non-compliant"

\* A returned result with critical findings, overall_risk 'critical' and
\* differences counted in the matrix, none of them critical or major
C25_Witness ==
  \E i \in Invocations :
    /\ ReturnedNormally(i)
    /\ SeverityCount(outcome[i].value.detailedFindings, "critical") > 0
    /\ outcome[i].value.riskAssessment.overall_risk = "critical"
    /\ outcome[i].value.complianceMatrix.minor_issues > 0
    /\ outcome[i].value.complianceMatrix.critical_issues = 0

\* ------------------------------------------------------------------------
\* A specification without sections
\* ------------------------------------------------------------------------
\* No line of the text is a section header
NoHeaderLine(text) == \A k \in 1..Len(text) : ~isSectionHeader(trim(text[k]))

\* C26: if the specification text yields zero sections (it is empty or
\* contains no header line), then for every submittal text the result of a
\* call in which no step throws has complianceScore 100, overallAssessment
\* 'compliant', no findings, no action items, overall_risk 'low', confidence
\* 0.1 and completeness 100.
C26_NoSpecificationSectionIsCompliant ==
  \A i \in Invocations :
    (ReturnedNormally(i) /\ NoHeaderLine(args[i].specificationText)) =>
      LET r == outcome[i].value IN
      /\ r.complianceScore = 100
      /\ r.overallAssessment = "compliant"
      /\ r.findings = <<>> /\ r.detailedFindings = <<>>
      /\ r.actionItems = <<>>
      /\ r.riskAssessment.overall_risk = "low"
      /\ 10 * r.confidence.n = r.confidence.d
      /\ r.qualityMetrics.completeness = 100
      /\ r.analysisMetadata.completenessScore.n
           = 100 * r.analysisMetadata.completenessScore.d

\* A submittal with a section, analysed against a specification that has
\* lines but no header
C26_Witness ==
  \E i \in Invocations :
    /\ ReturnedNormally(i)
    /\ NoHeaderLine(args[i].specificationText)
    /\ args[i].specificationText # <<LineEmpty>>
    /\ ~NoHeaderLine(args[i].submittalText)
    /\ outcome[i].value.complianceScore = 100

\* ------------------------------------------------------------------------
\* Findings and missing elements
\* ------------------------------------------------------------------------
\* C27: detailedFindings contains exactly one finding per MissingElement, in
\* the same order, with ids finding-1 .. finding-n and severity equal to the
\* element's criticality (only 'critical' or 'major'); accepted matches
\* never contribute a finding, because every ComparisonDifference has
\* correctionRequired = false.
C27_OneFindingPerMissingElement ==
  \A i \in Invocations :
    HasFindings(i) =>
      LET findings == frame[i].detailedFindings
          missing == frame[i].comparisonResult.missingElements
          differences == frame[i].comparisonResult.differences
      IN  /\ Len(findings) = Len(missing)
          /\ \A k \in 1..Len(missing) :
               /\ findings[k].id = <<"finding-", k>>
               /\ findings[k].severity = missing[k].criticality
               /\ findings[k].severity \in {"critical", "major"}
               /\ findings[k].category = missing[k].category
               /\ findings[k].section = missing[k].specificationRequirement
          /\ \A k \in 1..Len(differences) : ~differences[k].correctionRequired

\* Two missing elements or more with their findings, next to an accepted
\* match that left a difference and no finding
C27_Witness ==
  \E i \in Invocations :
    /\ HasFindings(i)
    /\ Len(frame[i].comparisonResult.differences) > 0
    /\ Len(frame[i].comparisonResult.similarities) > 0
    /\ Len(frame[i].comparisonResult.missingElements) >= 2
    /\ Len(frame[i].detailedFindings) >= 2

\* ------------------------------------------------------------------------
\* Document processing: POST /api/process/document, its background task
\* and the in-memory queue. A task is at one of the awaits of
\* processDocumentInBackground; each await settles in its own step.
\* ------------------------------------------------------------------------
MimeTypes == {"application/pdf", "application/msword", "application/zip"}

NoResult == [status |-> "none"]

createProcessingJob(queue, id) ==
  [queue EXCEPT ![id] =
     [status |-> "queued", progress |-> 0, message |-> "Queued for processing",
      completed |-> FALSE, result |-> NoResult, error |-> "none"]]

\* processingQueue.set(id, {...current, ...updates}) if the Map holds id
updateProcessingStatus(queue, id, updates) ==
  IF queue[id] = NoJob THEN queue
  ELSE [queue EXCEPT ![id] = updates @@ @]

\* processDocument: the extractor of the MIME type runs and may throw. A
\* throw of the PDF extractor, or an unsupported type, is caught by the outer
\* catch, which returns status 'failed'; the DOC extractor has its own catch,
\* which leaves a fallback text and status 'partial'
processDocument(mimeType, extractorThrows) ==
  IF mimeType = "application/pdf"
  THEN IF extractorThrows
       THEN [status |-> "failed", extractionMethod |-> "failed", extractedText |-> FALSE]
       ELSE [status |-> "success", extractionMethod |-> "pdf-parse", extractedText |-> TRUE]
  ELSE IF mimeType = "application/msword"
  THEN IF extractorThrows
       THEN [status |-> "partial", extractionMethod |-> "fallback", extractedText |-> TRUE]
       ELSE [status |-> "success", extractionMethod |-> "doc-parser", extractedText |-> TRUE]
  ELSE [status |-> "failed", extractionMethod |-> "failed", extractedText |-> FALSE]

InitJobs ==
  /\ EngineIdle
  /\ today = 0
  /\ matrixInput = Idle /\ matrixOutput = Idle
  /\ sanInput = Idle /\ sanFirst = Idle /\ sanSecond = Idle
  /\ processingQueue = [id \in DocumentIds |-> NoJob]
  /\ documents \in [DocumentIds -> {[UploadedRow EXCEPT !.file_type = m] : m \in MimeTypes}]
  /\ task = [t \in Tasks |-> NoTask]
  /\ retry = NoRetry

Others == <<engineVars, matrixVars, sanVars, retry>>

\* POST for a document of the user that is not already processed: the job is
\* created and processDocumentInBackground is called, not awaited; it runs to
\* its first await, createClient(). The other paths of the handler (401, 400,
\* 404, already processed) return before the job is created and change
\* nothing.
Post(t, id) ==
  /\ task[t].pc = "idle"
  /\ ~(documents[id].status = "processed" /\ documents[id].extracted_text)
  /\ processingQueue' = createProcessingJob(processingQueue, id)
  /\ task' = [task EXCEPT ![t] =
       [pc |-> "client", id |-> id, document |-> documents[id],
        result |-> NoResult, failedAt |-> "none"]]
  /\ UNCHANGED <<documents, Others>>

\* The catch block up to its await: the job is marked failed
CatchBlock(t, step) ==
  /\ processingQueue' = updateProcessingStatus(processingQueue, task[t].id,
       [status |-> "failed", progress |-> 0, message |-> "Processing failed",
        completed |-> TRUE, error |-> step])
  /\ task' = [task EXCEPT ![t] = [@ EXCEPT !.pc = "catchSave", !.failedAt = step]]
  /\ UNCHANGED <<documents, Others>>

\* await createClient() resolves: the try block is entered
ClientResolves(t) ==
  /\ task[t].pc = "client"
  /\ processingQueue' = updateProcessingStatus(processingQueue, task[t].id,
       [status |-> "processing", progress |-> 10,
        message |-> "Downloading document..."])
  /\ task' = [task EXCEPT ![t] = [@ EXCEPT !.pc = "download"]]
  /\ UNCHANGED <<documents, Others>>

\* await createClient() rejects, outside the try block: the promise of
\* processDocumentInBackground rejects and nothing handles it
ClientRejects(t) ==
  /\ task[t].pc = "client"
  /\ task' = [task EXCEPT ![t] = [@ EXCEPT !.pc = "rejected", !.failedAt = "client"]]
  /\ UNCHANGED <<processingQueue, documents, Others>>

DownloadResolves(t) ==
  /\ task[t].pc = "download"
  /\ processingQueue' = updateProcessingStatus(processingQueue, task[t].id,
       [progress |-> 30, message |-> "Extracting text..."])
  /\ task' = [task EXCEPT ![t] = [@ EXCEPT !.pc = "buffer"]]
  /\ UNCHANGED <<documents, Others>>

\* The download returns an error or no data, or rejects
DownloadFails(t) ==
  /\ task[t].pc = "download"
  /\ CatchBlock(t, "download")

\* await fileData.arrayBuffer() resolves and processDocument is called
BufferResolves(t) ==
  /\ task[t].pc = "buffer"
  /\ task' = [task EXCEPT ![t] = [@ EXCEPT !.pc = "extract"]]
  /\ UNCHANGED <<processingQueue, documents, Others>>

BufferRejects(t) ==
  /\ task[t].pc = "buffer"
  /\ CatchBlock(t, "buffer")

\* await processDocument(...) resolves: it catches what its extractors throw
ExtractResolves(t) ==
  /\ task[t].pc = "extract"
  /\ \E extractorThrows \in BOOLEAN :
       task' = [task EXCEPT ![t] =
         [@ EXCEPT !.pc = "save",
                   !.result = processDocument(task[t].document.file_type,
                                              extractorThrows)]]
  /\ processingQueue' = updateProcessingStatus(processingQueue, task[t].id,
       [progress |-> 80, message |-> "Saving results..."])
  /\ UNCHANGED <<documents, Others>>

\* The update of the row returns without error: the job is completed
SaveResolves(t) ==
  /\ task[t].pc = "save"
  /\ documents' = [documents EXCEPT ![task[t].id] =
       [@ EXCEPT !.extracted_text = task[t].result.extractedText,
                 !.status = IF task[t].result.status = "failed"
                            THEN "error" ELSE "processed"]]
  /\ processingQueue' = updateProcessingStatus(processingQueue, task[t].id,
       [status |-> "completed", progress |-> 100,
        message |-> "Processing completed successfully",
        completed |-> TRUE, result |-> task[t].result])
  /\ task' = [task EXCEPT ![t] = [@ EXCEPT !.pc = "done"]]
  /\ UNCHANGED Others

\* The update of the row returns an error, or rejects
SaveFails(t) ==
  /\ task[t].pc = "save"
  /\ CatchBlock(t, "save")

\* The update of the row in the catch block settles: the row is marked
\* 'error' (stored), or the update returns an error that is not looked at,
\* or it rejects
CatchSaveSettles(t) ==
  /\ task[t].pc = "catchSave"
  /\ \E how \in {"stored", "error", "rejected"} :
       /\ documents' = IF how = "stored"
                       THEN [documents EXCEPT ![task[t].id] = [@ EXCEPT !.status = "error"]]
                       ELSE documents
       /\ task' = [task EXCEPT ![t] =
            [@ EXCEPT !.pc = IF how = "rejected" THEN "rejected" ELSE "done"]]
  /\ UNCHANGED <<processingQueue, Others>>

\* An await of task t settles
Settle(t) ==
  \/ ClientResolves(t)
  \/ ClientRejects(t)
  \/ DownloadResolves(t)
  \/ DownloadFails(t)
  \/ BufferResolves(t)
  \/ BufferRejects(t)
  \/ ExtractResolves(t)
  \/ SaveResolves(t)
  \/ SaveFails(t)
  \/ CatchSaveSettles(t)

NextJobs ==
  \E t \in Tasks :
    \/ \E id \in DocumentIds : Post(t, id)
    \/ Settle(t)

\* Every promise a task awaits settles
SpecJobs ==
  InitJobs /\ [][NextJobs]_vars /\ \A t \in Tasks : WF_vars(Settle(t))

JobPending(id) == processingQueue[id].status \in {"queued", "processing"}
JobTerminal(id) == processingQueue[id].status \in {"completed", "failed"}

\* C28: every processing job created by POST /api/process/document
\* eventually reaches a terminal status: whichever awaited step of background
\* processing fails (client creation, download, extraction, database update),
\* the job moves from 'queued' to 'completed' or 'failed' and is never left
\* in 'queued' or 'processing' forever.
C28_EveryJobReachesTerminalStatus ==
  \A id \in DocumentIds : JobPending(id) ~> JobTerminal(id)

\* What the code guarantees: once createClient() has resolved for a task,
\* the job of its document reaches a terminal status
C28_TerminalOnceClientCreated ==
  \A t \in Tasks :
    (task[t].pc = "download") ~> (task[t].pc # "idle" /\ JobTerminal(task[t].id))

\* createClient() has rejected for the only task of a document: its job is
\* 'queued' and no task is left to move it
C28_Witness ==
  \E t \in Tasks :
    /\ task[t].pc = "rejected" /\ task[t].failedAt = "client"
    /\ processingQueue[task[t].id].status = "queued"
    /\ \A u \in Tasks \ {t} : task[u].pc = "idle" \/ task[u].id # task[t].id

JobCompleted(id) == processingQueue[id].status = "completed"

\* C29: a processing job has status 'completed' (progress 100) in the
\* in-memory queue only if text extraction succeeded and the document row
\* was stored with status 'processed'; whenever extraction fails or the row
\* is stored with status 'error', the job's status is 'failed'.
C29_CompletedOnlyIfExtractedAndProcessed ==
  /\ \A id \in DocumentIds :
       JobCompleted(id) =>
         /\ processingQueue[id].progress = 100
         /\ processingQueue[id].result.status # "failed"
  /\ \A t \in Tasks :
       (task[t].pc = "done" /\ task[t].result.status = "failed") =>
         /\ documents[task[t].id].status = "error"
         /\ processingQueue[task[t].id].status = "failed"

\* The tasks started for a document
TasksOf(id) == {t \in Tasks : task[t].pc # "idle" /\ task[t].id = id}

\* What the code does instead: a job is 'completed' when the update of the
\* row returned no error for one of its tasks, and it carries that task's
\* result of processDocument whatever its status. With one task for the
\* document, a 'completed' job has progress 100 and no error, and a 'failed'
\* job has progress 0 and the step inside the try block that threw.
C29_CompletedWheneverRowUpdated ==
  \A id \in DocumentIds :
    /\ JobCompleted(id) =>
         \E t \in TasksOf(id) :
           /\ task[t].pc = "done" /\ task[t].failedAt = "none"
           /\ processingQueue[id].result = task[t].result
           /\ task[t].result.status \in {"success", "partial", "failed"}
    /\ Cardinality(TasksOf(id)) = 1 =>
         /\ JobCompleted(id) =>
              processingQueue[id].progress = 100 /\ processingQueue[id].error = "none"
         /\ processingQueue[id].status = "failed" =>
              /\ processingQueue[id].progress = 0
              /\ processingQueue[id].error \in {"download", "buffer", "save"}

\* Extraction failed, the row is stored with status 'error', and the job
\* is 'completed'
C29_Witness ==
  \E t \in Tasks :
    /\ task[t].pc = "done"
    /\ task[t].result.status = "failed"
    /\ documents[task[t].id].status = "error"
    /\ JobCompleted(task[t].id)
    /\ processingQueue[task[t].id].result.status = "failed"
    /\ \A u \in Tasks \ {t} : task[u].pc = "idle"

\* ------------------------------------------------------------------------
\* retryWithBackoff: one call, with a configuration of maxRetries in
\* 0..MaxRetries. The operation is invoked, its promise settles, and after a
\* rejection that is retried the call sleeps before the next invocation.
\* ------------------------------------------------------------------------
MaxRetries == 3
BaseDelay == 1000
MaxDelay == 30000

OperationValues == {"value-a", "value-b"}
OperationErrors == {"ModelUnavailableError", "Error-a", "Error-b"}

InitRetry ==
  /\ EngineIdle
  /\ today = 0
  /\ matrixInput = Idle /\ matrixOutput = Idle
  /\ sanInput = Idle /\ sanFirst = Idle /\ sanSecond = Idle
  /\ ServicesIdle

NotRetry == <<engineVars, matrixVars, sanVars, jobVars>>

\* retryWithBackoff(operation, config) is called: attempt 0 invokes the
\* operation and awaits it
RetryCall ==
  /\ retry.pc = "idle"
  /\ \E maxRetries \in 0..MaxRetries, exponentialBackoff \in BOOLEAN :
       retry' = [pc |-> "operation",
                 config |-> [maxRetries |-> maxRetries, baseDelay |-> BaseDelay,
                             maxDelay |-> MaxDelay,
                             exponentialBackoff |-> exponentialBackoff],
                 attempt |-> 0,
                 invocations |-> <<>>,
                 lastError |-> "undefined",
                 delay |-> 0,
                 outcome |-> Pending]
  /\ UNCHANGED NotRetry

\* The operation resolves: return await operation()
OperationResolves ==
  /\ retry.pc = "operation"
  /\ \E v \in OperationValues :
       retry' = [retry EXCEPT
         !.pc = "returned",
         !.invocations = Append(@, Resolved(v)),
         !.outcome = Resolved(v)]
  /\ UNCHANGED NotRetry

\* The catch block of retryWithBackoff retrying a ModelUnavailableError like
\* any other error
OperationRejectsRetriesAll(error) ==
  /\ retry.pc = "operation"
  /\ IF retry.attempt = retry.config.maxRetries
     THEN retry' = [retry EXCEPT
            !.pc = "thrown",
            !.invocations = Append(@, Rejected(error)),
            !.lastError = error,
            !.outcome = Rejected(error)]
     ELSE retry' = [retry EXCEPT
            !.pc = "sleep",
            !.invocations = Append(@, Rejected(error)),
            !.lastError = error,
            !.delay = IF retry.config.exponentialBackoff
                      THEN Min2(retry.config.baseDelay * 2 ^ retry.attempt,
                                retry.config.maxDelay)
                      ELSE retry.config.baseDelay]
  /\ UNCHANGED NotRetry

\* The operation rejects: the catch block rethrows a ModelUnavailableError,
\* leaves the loop after the last attempt and throws lastError, or computes
\* the delay and sleeps
OperationRejects(error) ==
  /\ retry.pc = "operation"
  /\ IF error = "ModelUnavailableError" \/ retry.attempt = retry.config.maxRetries
     THEN retry' = [retry EXCEPT
            !.pc = "thrown",
            !.invocations = Append(@, Rejected(error)),
            !.lastError = error,
            !.outcome = Rejected(error)]
     ELSE retry' = [retry EXCEPT
            !.pc = "sleep",
            !.invocations = Append(@, Rejected(error)),
            !.lastError = error,
            !.delay = IF retry.config.exponentialBackoff
                      THEN Min2(retry.config.baseDelay * 2 ^ retry.attempt,
                                retry.config.maxDelay)
                      ELSE retry.config.baseDelay]
  /\ UNCHANGED NotRetry

\* sleep(delay) resolves: attempt++ and, the loop condition holding, the
\* operation is invoked again
SleepResolves ==
  /\ retry.pc = "sleep"
  /\ retry' = [retry EXCEPT !.pc = "operation", !.attempt = @ + 1]
  /\ UNCHANGED NotRetry

OperationSettles ==
  \/ OperationResolves
  \/ \E error \in OperationErrors : OperationRejects(error)

NextRetry == RetryCall \/ OperationSettles \/ SleepResolves

\* The promise of every invocation settles and every timer fires
SpecRetry ==
  InitRetry /\ [][NextRetry]_vars
    /\ WF_vars(OperationSettles) /\ WF_vars(SleepResolves)

RetryCalled == retry.pc # "idle"
RetrySettled == retry.pc \in {"returned", "thrown"}

\* The operation has been invoked once per settled invocation, and once more
\* while the call awaits it
InvocationCount ==
  Len(retry.invocations) + (IF retry.pc = "operation" THEN 1 ELSE 0)

RetrySafe ==
  RetryCalled =>
    LET invocations == retry.invocations
        n == Len(invocations)
    IN  /\ InvocationCount <= retry.config.maxRetries + 1
        /\ \A k \in 1..n :
             /\ invocations[k].kind = "resolved" =>
                  k = n /\ retry.outcome = invocations[k]
             /\ (invocations[k].kind = "rejected"
                   /\ invocations[k].error = "ModelUnavailableError") =>
                  k = n /\ retry.outcome = invocations[k]
        /\ retry.pc = "returned" =>
             n >= 1 /\ invocations[n].kind = "resolved"
        /\ retry.pc = "thrown" =>
             /\ n >= 1 /\ retry.outcome = invocations[n]
             /\ invocations[n].kind = "rejected"
             /\ \/ invocations[n].error = "ModelUnavailableError"
                \/ n = retry.config.maxRetries + 1
        /\ ~RetrySettled => retry.outcome = Pending

\* C30: retryWithBackoff always terminates after at most maxRetries + 1
\* invocations of the operation: it returns the result of the first
\* successful invocation without invoking the operation again, rethrows a
\* ModelUnavailableError immediately without any further invocation, and
\* otherwise throws the error of the last invocation.
C30_RetryTerminatesWithinBound ==
  /\ []RetrySafe
  /\ RetryCalled ~> RetrySettled

\* Every attempt was used: the call threw the error of the last of three or
\* more invocations, which is not the error of the first
C30_Witness ==
  /\ retry.pc = "thrown"
  /\ Len(retry.invocations) = retry.config.maxRetries + 1
  /\ Len(retry.invocations) >= 3
  /\ retry.outcome = retry.invocations[Len(retry.invocations)]
  /\ retry.invocations[1] # retry.invocations[Len(retry.invocations)]

====
